---- MODULE Spec2Model ----
(***************************************************************************)
(* State-machine model of the WAVM module instance lifecycle engine        *)
(* (src/src/wavm/WAVMWasmModule.cpp): binding, dynamic linking through the  *)
(* global offset table, linear-memory layout with guard regions, execute   *)
(* and tear-down of one WAVMWasmModule.                                    *)
(*                                                                         *)
(* Instances are named by strings: "env", "wasi", the bound function name  *)
(* for the main instance and the shared-object path for a dynamic one.     *)
(* A backend object is a record [inst, name, kind]; NullObj is nullptr.    *)
(* Table index i of the wasm table is element i + 1 of the sequence.       *)
(***************************************************************************)
EXTENDS Integers, Sequences, FiniteSets, TLC

VARIABLES
    isBound,                        \* _isBound
    boundUser,
    boundFunction,
    compartment,                    \* 0 = nullptr, else the compartment's id
    executionContext,               \* 0 = nullptr, else the owning compartment
    envModule,                      \* "null" or "env"
    wasiModule,                     \* "null" or "wasi"
    moduleInstance,                 \* "null" or the main instance's name
    defaultMemory,                  \* "null" or "memory"
    defaultTable,                   \* "null" or "table"
    memNumPages,                    \* pages of the compartment's default memory
    memNoAccess,                    \* page indices under mprotect(PROT_NONE)
    tableElems,                     \* elements of the compartment's default table
    globalOffsetTableMap,           \* function name -> table index
    globalOffsetMemoryMap,          \* data name -> [value, isMutable]
    missingGlobalOffsetEntries,     \* function name -> placeholder table index
    dynamicPathToHandleMap,         \* path -> handle
    dynamicModuleMap,               \* handle -> LoadedDynamicModule
    lastLoadedDynamicModuleHandle,
    executingModule,                \* thread_local executingModule of the calling thread
    mmaps,                          \* direct mmapPages / allocateThreadStack calls so far
    compartmentsCreated,            \* number of createCompartment calls so far
    crashed,                        \* the process died on a null backend handle
    memData,                        \* linear memory contents: written page -> value
    other,                          \* a second WAVMWasmModule, the source of clone
    snapshot,                       \* the stream doSnapshot wrote, read by doRestore
    baseEnvModule,                  \* static baseEnvModule: "null" or "env"
    baseWasiModule,                 \* static baseWasiModule: "null" or "wasi"
    baseModuleMx,                   \* owner of baseModuleMx, 0 when free
    baseCompartments,               \* createCompartment("baseModules") calls so far
    threads,                        \* per thread: position in getEnvModule / getWasiModule
    workers,                        \* per thread: thread_local executingModule, position in execute
    last                            \* the last call: operation, arguments, outcome

vars == << isBound, boundUser, boundFunction, compartment, executionContext,
           envModule, wasiModule, moduleInstance, defaultMemory, defaultTable,
           memNumPages, memNoAccess, tableElems, globalOffsetTableMap,
           globalOffsetMemoryMap, missingGlobalOffsetEntries,
           dynamicPathToHandleMap, dynamicModuleMap,
           lastLoadedDynamicModuleHandle, executingModule, mmaps,
           compartmentsCreated, crashed, memData, other, snapshot,
           baseEnvModule, baseWasiModule, baseModuleMx, baseCompartments,
           threads, workers, last >>

\* the process-wide base modules and the threads asking for them
baseVars == << baseEnvModule, baseWasiModule, baseModuleMx, baseCompartments, threads,
              workers >>

\* what an operation on this module alone leaves untouched
restVars == << other, snapshot, baseVars >>

----------------------------------------------------------------------------
(* Program constants *)

WASM_BYTES_PER_PAGE == 65536

THREAD_STACK_SIZE == 2097152

DYNAMIC_MODULE_MEMORY_PAGES == 30

DYNAMIC_MODULE_STACK_SIZE == 131072

MAIN_MODULE_DYNLINK_HANDLE == 1

\* the initial stack pointer of a main module
STACK_SIZE == 4194304

\* getPagesForGuardRegion(): the configured guard region size in pages
GuardPages == 1

(* Bounds of the model *)

\* getMemoryType(defaultMemory).size.max of the main module, in pages
MaxMemPages == 72

\* the table operations of the model stop growing the table at this size
MaxTableElems == 7

\* direct mmapPages / allocateThreadStack calls per behaviour
MaxMmaps == 1

\* shared-object paths a behaviour tries to load
MaxLoads == 2

\* compartments a behaviour creates by binding and cloning
MaxCompartments == 3

----------------------------------------------------------------------------
(* Maps (std::map / std::unordered_map) as functions with a finite domain *)

EmptyMap == [x \in {} |-> 0]

\* m[k] = v
MapPut(m, k, v) == [x \in (DOMAIN m) \cup {k} |-> IF x = k THEN v ELSE m[x]]

\* m.insert({k, v}): keeps the value of a key already present
MapInsert(m, k, v) == IF k \in DOMAIN m THEN m ELSE MapPut(m, k, v)

MapValues(m) == {m[k] : k \in DOMAIN m}

----------------------------------------------------------------------------
(* Backend objects *)

NullObj == [inst |-> "null", name |-> "null", kind |-> "null"]

Obj(i, n, k) == [inst |-> i, name |-> n, kind |-> k]

Exp(n, k) == [name |-> n, kind |-> k]

Imp(m, n, t) == [mod |-> m, name |-> n, type |-> t]

Glob(n, v, mut) == [name |-> n, value |-> v, isMutable |-> mut]

WASM_CTORS_FUNC_NAME == "__wasm_call_ctors"

ZYGOTE_FUNC_NAME == "_faasm_zygote"

ENTRY_FUNC_NAME == "_start"

----------------------------------------------------------------------------
(* The IR module cache: the modules the behaviours draw from.               *)
(* exports: exported names with their kind; elems: the function names of    *)
(* the element segment, in order; elemBase: its base offset (main module);  *)
(* tableSize / dataSize: getSharedModuleTableSize / getSharedModuleDataSize; *)
(* imports: the imports in link order; globals: the exported globals with   *)
(* an i32.const initializer; stackMutable: globals.getDef(0).type.isMutable; *)
(* pages: initial pages of the module's memory.                             *)

MainPaths == {"hello", "badstack"}

SharedPaths ==
    {"/lib/a.so", "/lib/b.so", "/lib/c.so", "/lib/big.so", "/lib/e.so", "/lib/f.so"}

\* boost::filesystem::is_directory(path)
IsDirectory(path) == path = "/dir"

\* boost::filesystem::exists(path)
Exists(path) == path \in SharedPaths \cup {"/dir"}

\* the path names a file dynamicLoadModule goes on to load
Loadable(path) == path # "" /\ ~IsDirectory(path) /\ Exists(path)

Paths == SharedPaths \cup {"", "/dir", "/missing"}

MainModuleIR(stackMut) ==
    [ exports |-> { Exp(ENTRY_FUNC_NAME, "func"), Exp(WASM_CTORS_FUNC_NAME, "func"),
                    Exp(ZYGOTE_FUNC_NAME, "func"), Exp("mf", "func"),
                    Exp("d", "global"), Exp("__heap_base", "global"),
                    Exp("__data_end", "global") },
      elems |-> << "mf", "minternal" >>,
      elemBase |-> 1,
      tableSize |-> 3,
      dataSize |-> 0,
      imports |-> << Imp("env", "puts", "func"),
                     Imp("wasi_snapshot_preview1", "fd_write", "func") >>,
      globals |-> { Glob("d", 1024, FALSE), Glob("__heap_base", 2048, FALSE),
                    Glob("__data_end", 2048, FALSE) },
      stackMutable |-> stackMut,
      stackInit |-> STACK_SIZE,
      pages |-> 4 ]

SharedModuleIR(exports, elems, tableSize, dataSize, imports, globals) ==
    [ exports |-> exports, elems |-> elems, elemBase |-> 0,
      tableSize |-> tableSize, dataSize |-> dataSize, imports |-> imports,
      globals |-> globals, stackMutable |-> TRUE, stackInit |-> 0, pages |-> 0 ]

\* main modules built in other ways: without a zygote function, with
\* __heap_base and __data_end apart, zero, negative or not exported, and
\* with a smaller stack
MainVariants == {"nozygote", "split", "zerobase", "negend", "noheap", "smallstack"}

MainModuleVariant(function) ==
    LET base == MainModuleIR(TRUE)
        layout(heapBase, dataEnd) ==
            {Glob("d", 1024, FALSE), Glob("__heap_base", heapBase, FALSE),
             Glob("__data_end", dataEnd, FALSE)}
    IN  CASE function = "nozygote" ->
                [base EXCEPT !.exports = @ \ {Exp(ZYGOTE_FUNC_NAME, "func")}]
          [] function = "split" -> [base EXCEPT !.globals = layout(4096, 2048)]
          [] function = "zerobase" -> [base EXCEPT !.globals = layout(0, 2048)]
          [] function = "negend" -> [base EXCEPT !.globals = layout(2048, -16)]
          [] function = "noheap" ->
                [base EXCEPT !.exports = @ \ {Exp("__heap_base", "global")}]
          [] OTHER -> [base EXCEPT !.stackInit = STACK_SIZE \div 4]

\* main modules whose bind cannot succeed: one that does not export
\* __wasm_call_ctors and one that imports a function nobody provides
BrokenMains == {"noctors", "nolink"}

BrokenMainModule(function) ==
    LET base == MainModuleIR(TRUE)
    IN  IF function = "noctors"
        THEN [base EXCEPT !.exports = @ \ {Exp(WASM_CTORS_FUNC_NAME, "func")}]
        ELSE [base EXCEPT !.imports = Append(@, Imp("env", "nosuch", "func"))]

BaseImports ==
    << Imp("env", "__memory_base", "global"), Imp("env", "__table_base", "global"),
       Imp("env", "__stack_pointer", "global"),
       Imp("env", "__indirect_function_table", "table") >>

\* IRModuleCache::getModule(user, function, path)
getModule(function, path) ==
    CASE path = "" /\ function = "badstack" -> MainModuleIR(FALSE)
      [] path = "" /\ function \in MainVariants -> MainModuleVariant(function)
      [] path = "" /\ function \in BrokenMains -> BrokenMainModule(function)
      [] path = "" /\ function \notin {"badstack"} \cup MainVariants \cup BrokenMains ->
            MainModuleIR(TRUE)
      [] path = "/lib/a.so" ->
            \* imports g through GOT.func; nobody it can see exports g
            SharedModuleIR({Exp("f", "func"), Exp(WASM_CTORS_FUNC_NAME, "func")},
                           << "f" >>, 1, 16,
                           BaseImports \o << Imp("GOT.func", "g", "global") >>, {})
      [] path = "/lib/b.so" ->
            \* exports g (in its element segment) and bx (not in it)
            SharedModuleIR({Exp("g", "func"), Exp("bx", "func"), Exp("bd", "global"),
                            Exp(WASM_CTORS_FUNC_NAME, "func")},
                           << "g", "binternal" >>, 2, 32,
                           BaseImports \o << Imp("GOT.mem", "d", "global"),
                                              Imp("env", "puts", "func"),
                                              Imp("env", "mf", "func") >>,
                           {Glob("bd", 8, TRUE)})
      [] path = "/lib/c.so" ->
            \* imports its own export h through GOT.func, and b.so's bx
            SharedModuleIR({Exp("h", "func"), Exp(WASM_CTORS_FUNC_NAME, "func")},
                           << "cinternal" >>, 1, 0,
                           BaseImports \o << Imp("GOT.func", "h", "global"),
                                              Imp("GOT.func", "bx", "global"),
                                              Imp("GOT.func", "mf", "global") >>, {})
      [] path = "/lib/big.so" ->
            \* its data does not fit the dynamic module allocation
            SharedModuleIR({Exp(WASM_CTORS_FUNC_NAME, "func")},
                           << "biginternal" >>, 1,
                           DYNAMIC_MODULE_MEMORY_PAGES * WASM_BYTES_PER_PAGE,
                           BaseImports, {})
      [] path = "/lib/f.so" ->
            \* imports g through GOT.func like a.so, and b.so's data symbol bd
            SharedModuleIR({Exp(WASM_CTORS_FUNC_NAME, "func")},
                           << "finternal" >>, 1, 0,
                           BaseImports \o << Imp("GOT.func", "g", "global"),
                                              Imp("GOT.mem", "bd", "global") >>, {})
      [] OTHER ->
            \* "/lib/e.so": exports g too, and imports a data symbol nobody defines
            SharedModuleIR({Exp("g", "func")}, << "g" >>, 1, 8,
                           BaseImports \o << Imp("GOT.mem", "nosuch", "global") >>, {})

EnvExports == {Exp("puts", "func")}

WasiExports == {Exp("fd_write", "func")}

\* the exports of a live instance
ExportsOf(inst) ==
    CASE inst = "env" -> EnvExports
      [] inst = "wasi" -> WasiExports
      [] inst \in MainPaths \cup MainVariants \cup BrokenMains -> getModule(inst, "").exports
      [] inst \in SharedPaths -> getModule("", inst).exports
      [] OTHER -> {}

\* Runtime::getInstanceExport(instance, name); the instance is not null
getInstanceExport(inst, name) ==
    IF \E e \in ExportsOf(inst) : e.name = name
    THEN Obj(inst, name, (CHOOSE e \in ExportsOf(inst) : e.name = name).kind)
    ELSE NullObj

----------------------------------------------------------------------------
(* Backend failures.  A fault [kind, at, res] makes the at-th call of the   *)
(* named backend function within one operation fail; res is the GrowResult  *)
(* a failing growMemory reports.  Faults are the failures a dynamic load    *)
(* is run against, MmapFaults those of a direct mmapPages.                  *)

NoFault == [kind |-> "none", at |-> 0, res |-> "none"]

GrowResults == {"outOfMemory", "outOfMaxSize", "outOfQuota", "outOfAddressSpace"}

Faults ==
    {NoFault}
    \cup {[kind |-> "growTable", at |-> k, res |-> "none"] : k \in 1..2}
    \cup {[kind |-> "growMemory", at |-> 2, res |-> "outOfMemory"],
          [kind |-> "mprotect", at |-> 2, res |-> "none"],
          [kind |-> "createGlobal", at |-> 5, res |-> "none"]}

MmapFaults ==
    {NoFault} \cup {[kind |-> "growMemory", at |-> 1, res |-> r] : r \in GrowResults}

----------------------------------------------------------------------------
(* The working state of one operation: the fields of the module the         *)
(* operation reads and writes, the exception it ended with ("none" while    *)
(* it runs), its return value, the backend calls it made so far, the guest  *)
(* functions it invoked and the globals the resolver created.               *)

\* the one element of a singleton set.  The({e : x \in {v}}) computes v once and
\* names it x in e: the steps of a handler are chained this way
The(S) == CHOOSE r \in S : TRUE

Raise(s0, e) ==
    The({ IF s.exc = "none" THEN [s EXCEPT !.exc = e] ELSE s : s \in {s0} })

\* dereferencing a null backend handle
CRASH == "SIGSEGV"

Invoke(s0, inst, fname) ==
    The({ [s EXCEPT !.inv = Append(@, << inst, fname >>), !.exec = "self"] : s \in {s0} })

\* Runtime::growTable(defaultTable, n, &oldElems) followed by nothing else
growTableFails(s, f) == f.kind = "growTable" /\ f.at = s.nT + 1

growTable(s0, n) ==
    The({ [s EXCEPT !.nT = @ + 1, !.tbl = @ \o [i \in 1..n |-> NullObj]] : s \in {s0} })

\* Runtime::setTableElement(defaultTable, idx, obj)
setTableElement(tbl, idx, obj) == [tbl EXCEPT ![idx + 1] = obj]

\* Runtime::getTableElement(defaultTable, idx); out of bounds gives nullptr here
getTableElement(tbl, idx) ==
    IF idx + 1 \in DOMAIN tbl THEN tbl[idx + 1] ELSE NullObj

GrowMemoryError(res) ==
    CASE res = "outOfMemory" -> "Unable to commit virtual pages"
      [] res = "outOfMaxSize" -> "Run out of memory to map"
      [] res = "outOfQuota" -> "Memory resource quota exceeded"
      [] OTHER -> "Unknown memory mapping error"

\* mmapPages that keeps the pages the backend committed before it reported a failure
mmapPagesKeepingPartialGrowth(s0, pages, f) ==
    The({ IF s.exc # "none" THEN s
          ELSE IF s.mem = "null" THEN Raise(s, CRASH)
          ELSE IF pages = 0 THEN Raise(s, "Requesting mapping of zero pages")
          ELSE IF s.pages + pages > MaxMemPages THEN Raise(s, "Mmap exceeding max")
          ELSE IF f.kind = "growMemory" /\ f.at = s.nM + 1
               THEN Raise([s EXCEPT !.nM = @ + 1, !.pages = @ + pages - 1],
                          GrowMemoryError(f.res))
               ELSE [s EXCEPT !.nM = @ + 1,
                              !.pages = @ + pages,
                              !.maps = Append(@, [lo |-> s.pages, hi |-> s.pages + pages]),
                              !.ret = s.pages * WASM_BYTES_PER_PAGE]
          : s \in {s0} })

\* mmapPages that hands out the range above the current top without growing
\* the memory
mmapPagesWithoutGrowing(s0, pages, f) ==
    The({ IF s.exc # "none" THEN s
          ELSE IF s.mem = "null" THEN Raise(s, CRASH)
          ELSE IF pages = 0 THEN Raise(s, "Requesting mapping of zero pages")
          ELSE IF s.pages + pages > MaxMemPages THEN Raise(s, "Mmap exceeding max")
          ELSE IF f.kind = "growMemory" /\ f.at = s.nM + 1
               THEN Raise([s EXCEPT !.nM = @ + 1], GrowMemoryError(f.res))
               ELSE [s EXCEPT !.nM = @ + 1,
                              !.maps = Append(@, [lo |-> s.pages, hi |-> s.pages + pages]),
                              !.ret = s.pages * WASM_BYTES_PER_PAGE]
          : s \in {s0} })

\* WAVMWasmModule::mmapPages: leaves the offset of the new range in s.ret
mmapPages(s0, pages, f) ==
    The({ IF s.exc # "none" THEN s
          ELSE IF s.mem = "null" THEN Raise(s, CRASH)
          ELSE IF pages = 0 THEN Raise(s, "Requesting mapping of zero pages")
          ELSE IF s.pages + pages > MaxMemPages THEN Raise(s, "Mmap exceeding max")
          ELSE IF f.kind = "growMemory" /\ f.at = s.nM + 1
               THEN Raise([s EXCEPT !.nM = @ + 1], GrowMemoryError(f.res))
               ELSE [s EXCEPT !.nM = @ + 1,
                              !.pages = @ + pages,
                              !.maps = Append(@, [lo |-> s.pages, hi |-> s.pages + pages]),
                              !.ret = s.pages * WASM_BYTES_PER_PAGE]
          : s \in {s0} })

\* getNumberOfWasmPagesForBytes(length): round up to the page boundary
getNumberOfWasmPagesForBytes(length) ==
    (length + WASM_BYTES_PER_PAGE - 1) \div WASM_BYTES_PER_PAGE

\* WAVMWasmModule::mmapMemory
mmapMemory(s, length, f) == mmapPages(s, getNumberOfWasmPagesForBytes(length), f)

\* WAVMWasmModule::allocateThreadStack
allocateThreadStack(s, f) == mmapMemory(s, THREAD_STACK_SIZE, f)

\* createMemoryGuardRegion that maps the region and leaves it accessible
createMemoryGuardRegionAccessible(s0, f) ==
    The({ IF s1.exc # "none" THEN s1 ELSE [s1 EXCEPT !.nP = @ + 1]
          : s1 \in {mmapPages(s0, GuardPages, f)} })

\* WAVMWasmModule::createMemoryGuardRegion
createMemoryGuardRegion(s0, f) ==
    The({ LET first == s1.ret \div WASM_BYTES_PER_PAGE
          IN  IF s1.exc # "none" THEN s1
              ELSE IF f.kind = "mprotect" /\ f.at = s1.nP + 1
                   THEN Raise([s1 EXCEPT !.nP = @ + 1], "Failed to create memory guard")
                   ELSE [s1 EXCEPT !.nP = @ + 1,
                                   !.noacc = @ \cup (first .. first + GuardPages - 1)]
          : s1 \in {mmapPages(s0, GuardPages, f)} })

----------------------------------------------------------------------------
(* The dynamic module registry *)

\* the record with the data placed at the bottom of the region, under the stack
LoadedDynamicModuleDataFirst(path, newMemory, dataSize, oldTableElems, newTableElems) ==
    LET memoryBottom == newMemory
        dataBottom == memoryBottom
        dataTop == dataBottom + dataSize
        stackTop == dataTop + DYNAMIC_MODULE_STACK_SIZE
    IN  [ path |-> path,
          ptr |-> "null",
          memoryBottom |-> memoryBottom,
          memoryTop |-> memoryBottom + (DYNAMIC_MODULE_MEMORY_PAGES * WASM_BYTES_PER_PAGE),
          stackSize |-> DYNAMIC_MODULE_STACK_SIZE,
          stackTop |-> stackTop,
          stackPointer |-> stackTop - 1,
          dataBottom |-> dataBottom,
          dataTop |-> dataTop,
          heapBottom |-> stackTop,
          tableBottom |-> oldTableElems,
          tableTop |-> newTableElems ]

\* the record with the module's table range taken from the start of the table
LoadedDynamicModuleFromZero(path, newMemory, dataSize, oldTableElems, newTableElems) ==
    LET memoryBottom == newMemory
        stackTop == memoryBottom + DYNAMIC_MODULE_STACK_SIZE
        dataBottom == stackTop
        dataTop == dataBottom + dataSize
    IN  [ path |-> path,
          ptr |-> "null",
          memoryBottom |-> memoryBottom,
          memoryTop |-> memoryBottom + (DYNAMIC_MODULE_MEMORY_PAGES * WASM_BYTES_PER_PAGE),
          stackSize |-> DYNAMIC_MODULE_STACK_SIZE,
          stackTop |-> stackTop,
          stackPointer |-> stackTop - 1,
          dataBottom |-> dataBottom,
          dataTop |-> dataTop,
          heapBottom |-> dataTop,
          tableBottom |-> 0,
          tableTop |-> newTableElems ]

\* the record with a table range that takes in the slot after the module's
\* elements
LoadedDynamicModuleWiderTable(path, newMemory, dataSize, oldTableElems, newTableElems) ==
    LET memoryBottom == newMemory
        stackTop == memoryBottom + DYNAMIC_MODULE_STACK_SIZE
        dataBottom == stackTop
        dataTop == dataBottom + dataSize
    IN  [ path |-> path,
          ptr |-> "null",
          memoryBottom |-> memoryBottom,
          memoryTop |-> memoryBottom + (DYNAMIC_MODULE_MEMORY_PAGES * WASM_BYTES_PER_PAGE),
          stackSize |-> DYNAMIC_MODULE_STACK_SIZE,
          stackTop |-> stackTop,
          stackPointer |-> stackTop - 1,
          dataBottom |-> dataBottom,
          dataTop |-> dataTop,
          heapBottom |-> dataTop,
          tableBottom |-> oldTableElems,
          tableTop |-> newTableElems + 1 ]

\* LoadedDynamicModule as createModuleInstance fills it in (ptr still null)
LoadedDynamicModule(path, newMemory, dataSize, oldTableElems, newTableElems) ==
    LET memoryBottom == newMemory
        stackTop == memoryBottom + DYNAMIC_MODULE_STACK_SIZE
        dataBottom == stackTop
        dataTop == dataBottom + dataSize
    IN  [ path |-> path,
          ptr |-> "null",
          memoryBottom |-> memoryBottom,
          memoryTop |-> memoryBottom + (DYNAMIC_MODULE_MEMORY_PAGES * WASM_BYTES_PER_PAGE),
          stackSize |-> DYNAMIC_MODULE_STACK_SIZE,
          stackTop |-> stackTop,
          stackPointer |-> stackTop - 1,
          dataBottom |-> dataBottom,
          dataTop |-> dataTop,
          heapBottom |-> dataTop,
          tableBottom |-> oldTableElems,
          tableTop |-> newTableElems ]

\* LoadedDynamicModule::validate()
validate(m) ==
    /\ m.path # ""
    /\ m.ptr # "null"
    /\ m.memoryBottom <= m.stackTop
    /\ m.stackTop <= m.dataBottom
    /\ m.dataBottom <= m.dataTop
    /\ m.dataTop = m.heapBottom
    /\ m.heapBottom <= m.memoryTop
    /\ m.tableBottom < m.tableTop

\* the exception getLastLoadedDynamicModule() throws, "none" when it returns
LastLoadedError(s) ==
    IF s.cursor = 0 THEN "No dynamic modules loaded"
    ELSE IF s.cursor \notin DOMAIN s.dmm
         THEN "Cannot find entry for last loaded dynamic module"
         ELSE "none"

\* WAVMWasmModule::getLastLoadedDynamicModule, once LastLoadedError is "none"
getLastLoadedDynamicModule(s) == s.dmm[s.cursor]

\* for (auto m : dynamicModuleMap) { if (m.second.ptr == nullptr) continue; ... }:
\* the first export of that name among the instantiated dynamic modules
FirstDynamicExport(dmm, name) ==
    LET hs == {h \in DOMAIN dmm :
                 /\ dmm[h].ptr # "null"
                 /\ getInstanceExport(dmm[h].ptr, name) # NullObj}
    IN  IF hs = {} THEN NullObj
        ELSE getInstanceExport(dmm[CHOOSE h \in hs : \A k \in hs : h <= k].ptr, name)

----------------------------------------------------------------------------
(* The global offset table *)

\* the table-element loop written with operator[]: the last module to export
\* a name overwrites the entry
GOTWithElemsOverwriting(got, mod, offset) ==
    LET exported == {i \in 1..Len(mod.elems) :
                       \E e \in mod.exports : e.name = mod.elems[i]}
        names == {mod.elems[i] : i \in exported}
        lastOf(n) == CHOOSE i \in exported :
                       mod.elems[i] = n /\ \A j \in exported : mod.elems[j] = n => j <= i
    IN  [n \in (DOMAIN got) \cup names |->
            IF n \in names THEN offset + (lastOf(n) - 1) ELSE got[n]]

\* the table-element loop of addModuleToGOT: insert of each exported element name
GOTWithElems(got, mod, offset) ==
    LET exported == {i \in 1..Len(mod.elems) :
                       \E e \in mod.exports : e.name = mod.elems[i]}
        names == {mod.elems[i] : i \in exported}
        first(n) == CHOOSE i \in exported :
                       mod.elems[i] = n /\ \A j \in exported : mod.elems[j] = n => i <= j
    IN  [n \in (DOMAIN got) \cup names |->
            IF n \in DOMAIN got THEN got[n] ELSE offset + (first(n) - 1)]

\* the data loop of addModuleToGOT: insert of each exported i32 global
GOMWithGlobals(gom, mod, offset) ==
    LET names == {g.name : g \in mod.globals}
        def(n) == CHOOSE g \in mod.globals : g.name = n
    IN  [n \in (DOMAIN gom) \cup names |->
            IF n \in DOMAIN gom THEN gom[n]
            ELSE [value |-> offset + def(n).value, isMutable |-> def(n).isMutable]]

\* WAVMWasmModule::addModuleToGOT
addModuleToGOT(s0, mod, isMainModule) ==
    The({ IF s.exc # "none" THEN s
          ELSE IF isMainModule
          THEN [s EXCEPT !.got = GOTWithElems(@, mod, mod.elemBase),
                         !.gom = GOMWithGlobals(@, mod, 0)]
          ELSE IF Len(mod.elems) = 0 /\ mod.globals = {} THEN s
          ELSE IF LastLoadedError(s) # "none" THEN Raise(s, LastLoadedError(s))
          ELSE [s EXCEPT
                  !.got = GOTWithElems(@, mod, getLastLoadedDynamicModule(s).tableBottom),
                  !.gom = GOMWithGlobals(@, mod, getLastLoadedDynamicModule(s).dataBottom)]
          : s \in {s0} })

\* WAVMWasmModule::addFunctionToTable: leaves the new index in s.ret
addFunctionToTable(s0, exportedFunc, f) ==
    The({ IF s.exc # "none" THEN s
          ELSE IF s.table = "null" THEN Raise(s, CRASH)
          ELSE IF growTableFails(s, f)
               THEN Raise([s EXCEPT !.nT = @ + 1], "Failed to grow table")
               ELSE [s EXCEPT !.nT = @ + 1,
                              !.tbl = Append(@, func),
                              !.ret = Len(s.tbl)]
          : s \in {s0}, func \in {exportedFunc} })

----------------------------------------------------------------------------
(* The resolver *)

\* Runtime::createGlobal + initializeGlobal: the global is recorded with its value
createGlobal(s0, from, name, value, isMutable) ==
    The({ [s EXCEPT !.nG = @ + 1,
                    !.globs = Append(@, [from |-> from, name |-> name, value |-> v,
                                         isMutable |-> isMutable]),
                    !.res = Obj("global", name, "global")]
          : s \in {s0}, v \in {value} })

createGlobalFails(s, f) == f.kind = "createGlobal" /\ f.at = s.nG + 1

\* the GOT.func branch of resolve
resolveGOTFunc(s0, name, f) ==
    The({ The({ IF s1.exc # "none" THEN s1
                ELSE IF createGlobalFails(s1, f)
                     THEN Raise([s1 EXCEPT !.nG = @ + 1],
                                "Failed to create global function offset")
                     ELSE createGlobal(s1, "GOT.func", name, s1.ret, FALSE)
          \* found in the GOT / found in a loaded module / placeholder
          : s1 \in { IF name \in DOMAIN s.got THEN [s EXCEPT !.ret = s.got[name]]
                     ELSE The({
                        IF resolvedFunc # NullObj
                        THEN The({ IF a.exc # "none" THEN a
                                   ELSE [a EXCEPT !.got = MapInsert(@, name, a.ret)]
                                   : a \in {addFunctionToTable(s, resolvedFunc, f)} })
                        ELSE IF growTableFails(s, f)
                             THEN Raise([s EXCEPT !.nT = @ + 1], "Failed to grow table")
                             ELSE [s EXCEPT !.nT = @ + 1,
                                            !.tbl = Append(@, NullObj),
                                            !.miss = MapInsert(@, name, Len(s.tbl)),
                                            !.ret = Len(s.tbl)]
                        : resolvedFunc \in {
                            IF getInstanceExport(s.main, name) # NullObj
                            THEN getInstanceExport(s.main, name)
                            ELSE FirstDynamicExport(s.dmm, name) } }) } })
          : s \in {s0} })

\* the GOT.mem branch that adds the last-loaded module's dataBottom once more
resolveGOTMemRebased(s0, name, f) ==
    The({ IF name \notin DOMAIN s.gom THEN [s EXCEPT !.res = NullObj]
          ELSE IF createGlobalFails(s, f)
               THEN Raise([s EXCEPT !.nG = @ + 1], "Failed to create global")
               ELSE createGlobal(s, "GOT.mem", name,
                                 s.gom[name].value + getLastLoadedDynamicModule(s).dataBottom,
                                 TRUE)
          : s \in {s0} })

\* the GOT.mem branch of resolve; a name missing from the map resolves to nothing
resolveGOTMem(s0, name, f) ==
    The({ IF name \notin DOMAIN s.gom THEN [s EXCEPT !.res = NullObj]
          ELSE IF createGlobalFails(s, f)
               THEN Raise([s EXCEPT !.nG = @ + 1], "Failed to create global")
               ELSE createGlobal(s, "GOT.mem", name, s.gom[name].value, TRUE)
          : s \in {s0} })

\* __memory_base, __table_base, __stack_pointer: createGlobal is not checked
resolveBase(s0, name, value, f) ==
    The({ IF createGlobalFails(s, f) THEN Raise([s EXCEPT !.nG = @ + 1], CRASH)
          ELSE createGlobal(s, "env", name, value, FALSE)
          : s \in {s0} })

\* the fallback branch of resolve: env or WASI, then main, then the dynamic modules
resolveFallback(s0, modulePtr, name) ==
    The({ [s EXCEPT !.res = IF getInstanceExport(modulePtr, name) # NullObj
                             THEN getInstanceExport(modulePtr, name)
                             ELSE IF getInstanceExport(s.main, name) # NullObj
                             THEN getInstanceExport(s.main, name)
                             ELSE FirstDynamicExport(s.dmm, name)]
          : s \in {s0} })

\* isA(resolved, type)
isA(obj, type) == obj.kind = type

\* WAVMWasmModule::resolve; s.linkOk collects the results of the link
resolve(sIn, imp, f) ==
    The({ The({ IF s.exc # "none" THEN s
                ELSE IF s1.exc # "none" THEN s1
                ELSE [s1 EXCEPT !.linkOk = @ /\ s1.res # NullObj /\ isA(s1.res, imp.type)]
          : s1 \in {
              LET isMainModule == s.main = "null"
                  modulePtr == IF imp.mod = "wasi_snapshot_preview1" THEN s.wasi ELSE s.env
                  s0 == [s EXCEPT !.res = NullObj]
              IN  IF s.exc # "none" THEN s
                  ELSE IF isMainModule
                  THEN [s EXCEPT !.res = getInstanceExport(modulePtr, imp.name)]
                  ELSE IF LastLoadedError(s) # "none" THEN Raise(s0, LastLoadedError(s))
                  ELSE IF imp.mod = "GOT.mem" THEN resolveGOTMem(s0, imp.name, f)
                  ELSE IF imp.mod = "GOT.func" THEN resolveGOTFunc(s0, imp.name, f)
                  ELSE IF imp.name = "__memory_base"
                       THEN resolveBase(s0, imp.name, getLastLoadedDynamicModule(s).dataBottom, f)
                  ELSE IF imp.name = "__table_base"
                       THEN resolveBase(s0, imp.name, getLastLoadedDynamicModule(s).tableBottom, f)
                  ELSE IF imp.name = "__stack_pointer"
                       THEN resolveBase(s0, imp.name, getLastLoadedDynamicModule(s).stackPointer, f)
                  ELSE IF imp.name = "__indirect_function_table"
                       THEN [s EXCEPT !.res = Obj(s.main, "table", "table")]
                  ELSE resolveFallback(s0, modulePtr, imp.name) } })
          : s \in {sIn} })

\* Runtime::linkModule(irModule, *this): resolve is called for every import
RECURSIVE linkModule(_, _, _, _)
linkModule(s0, imports, i, f) ==
    The({ IF i > Len(imports) \/ s.exc # "none" THEN s
          ELSE linkModule(resolve(s, imports[i], f), imports, i + 1, f)
          : s \in {s0} })

----------------------------------------------------------------------------
(* Instantiation *)

\* Runtime::instantiateModule: the instance's element segment is written into
\* the table, at elemBase for the main module (whose table and memory are
\* created here) and at the __table_base it was linked with otherwise
instantiateModule(s0, mod, inst, isMainModule) ==
    The({ LET base == IF isMainModule THEN mod.elemBase
                      ELSE s.dmm[s.p2h[inst]].tableBottom
              tbl0 == IF isMainModule THEN [i \in 1..mod.tableSize |-> NullObj] ELSE s.tbl
          IN  IF s.exc # "none" THEN s
              ELSE [s EXCEPT !.tbl = [i \in DOMAIN tbl0 |->
                                        IF i - 1 >= base /\ i - 1 < base + Len(mod.elems)
                                        THEN Obj(inst, mod.elems[i - base], "func")
                                        ELSE tbl0[i]],
                             !.pages = IF isMainModule THEN mod.pages ELSE @,
                             !.inst = inst]
          : s \in {s0} })

\* the loop that skips the entries the new instance does not export and leaves
\* them for a later module
patchMissingEntriesDeferring(s0, inst, before) ==
    The({ LET miss == s.miss
              done == {n \in DOMAIN miss : getInstanceExport(inst, n) # NullObj}
          IN  IF s.exc # "none" THEN s
              ELSE [s EXCEPT
                      !.tbl = [i \in DOMAIN s.tbl |->
                                 IF \E n \in done : miss[n] + 1 = i
                                 THEN getInstanceExport(inst, CHOOSE n \in done : miss[n] + 1 = i)
                                 ELSE s.tbl[i]],
                      !.got = [n \in (DOMAIN s.got) \cup done |->
                                 IF n \in DOMAIN s.got THEN s.got[n] ELSE miss[n]],
                      !.miss = [n \in (DOMAIN miss) \ done |-> miss[n]],
                      !.patched = [n \in done |-> miss[n]]]
          : s \in {s0} })

\* the loop over missingGlobalOffsetEntries in createModuleInstance.  The map
\* is walked in an order the model does not fix: when an entry is no export
\* of the new instance the walk throws there, after the entries `before`.
patchMissingEntries(s0, inst, before) ==
    The({ The({ The({
                IF s.exc # "none" THEN s
                ELSE IF done # DOMAIN s.miss
                     THEN Raise(s1, "Failed linking module on missing GOT entry")
                     ELSE [s1 EXCEPT !.miss = EmptyMap, !.patched = s.miss]
          : s1 \in { [s EXCEPT
                        !.tbl = [i \in DOMAIN s.tbl |->
                                   IF \E n \in done : s.miss[n] + 1 = i
                                   THEN getInstanceExport(
                                          inst, CHOOSE n \in done : s.miss[n] + 1 = i)
                                   ELSE s.tbl[i]],
                        !.got = [n \in (DOMAIN s.got) \cup done |->
                                   IF n \in DOMAIN s.got THEN s.got[n] ELSE s.miss[n]]] } })
          : done \in { LET patchable == {n \in DOMAIN s.miss :
                                           getInstanceExport(inst, n) # NullObj}
                       IN  IF patchable = DOMAIN s.miss THEN patchable
                           ELSE before \cap patchable } })
          : s \in {s0} })

\* the dynamic-module branch of createModuleInstance, up to the registry record
provisionDynamicModule(s0, mod, path, f) ==
    The({ The({ The({ The({
                LET handle == IF path \in DOMAIN s4.p2h THEN s4.p2h[path] ELSE 0
                    fresh == LoadedDynamicModule(path, s3.ret, mod.dataSize,
                                                 Len(s.tbl), Len(s1.tbl))
                    rec == IF handle \in DOMAIN s4.dmm
                           THEN [fresh EXCEPT !.ptr = s4.dmm[handle].ptr]
                           ELSE fresh
                IN  IF s4.exc # "none" THEN s4
                    ELSE [s4 EXCEPT !.p2h = MapInsert(@, path, 0),
                                    !.dmm = MapPut(@, handle, rec),
                                    !.ret = s3.ret]
          : s4 \in {createMemoryGuardRegion(s3, f)} })
          : s3 \in {mmapPages(createMemoryGuardRegion(s1, f),
                              DYNAMIC_MODULE_MEMORY_PAGES, f)} })
          : s1 \in { IF s.table = "null" THEN Raise(s, CRASH)
                     ELSE IF growTableFails(s, f)
                          THEN Raise([s EXCEPT !.nT = @ + 1],
                                     "Failed to grow main module table")
                          ELSE growTable(s, mod.tableSize) } })
          : s \in {s0} })

\* the main-module branch of createModuleInstance
provisionMainModule(s0, mod) ==
    The({ IF ~mod.stackMutable
          THEN Raise([s EXCEPT !.env = "env", !.wasi = "wasi"], "Found immutable stack top")
          ELSE [s EXCEPT !.env = "env", !.wasi = "wasi"]
          : s \in {s0} })

\* createModuleInstance after instantiation: record the instance and validate
recordInstance(s0, path, inst) ==
    The({ LET handle == s.p2h[path]
              s1 == [s EXCEPT !.dmm = [@ EXCEPT ![handle].ptr = inst]]
          IN  IF s.exc # "none" THEN s
              ELSE IF ~validate(s1.dmm[handle])
                   THEN Raise(s1, "Invalid dynamic module. See logs")
                   ELSE s1
          : s \in {s0} })

\* WAVMWasmModule::createModuleInstance: leaves the instance in s.inst
createModuleInstance(s0, inst, sharedModulePath, f, before) ==
    The({ The({ The({
                LET isMainModule == sharedModulePath = ""
                    s4 == IF s3.exc = "none" /\ ~s3.linkOk
                          THEN Raise(s3, "Failed linking module") ELSE s3
                    s6 == patchMissingEntries(
                            instantiateModule(s4, irModule, inst, isMainModule),
                            inst, before)
                IN  IF s.exc # "none" THEN s
                    ELSE IF isMainModule THEN s6
                    ELSE recordInstance(s6, sharedModulePath, inst)
          : s3 \in {
              LET isMainModule == sharedModulePath = ""
                  s1 == IF isMainModule THEN provisionMainModule(s, irModule)
                        ELSE provisionDynamicModule(s, irModule, sharedModulePath, f)
                  s2 == addModuleToGOT(s1, irModule, isMainModule)
              IN  linkModule([s2 EXCEPT !.linkOk = TRUE], irModule.imports, 1, f) } })
          : irModule \in {getModule(s.fn, sharedModulePath)} })
          : s \in {s0} })

\* WAVMWasmModule::executeWasmConstructorsFunction; result is what the guest returns
executeWasmConstructorsFunction(s0, module, result) ==
    The({ LET ctors == getInstanceExport(module, WASM_CTORS_FUNC_NAME)
          IN  IF s.exc # "none" THEN s
              ELSE IF module = "null" THEN Raise(s, CRASH)
              ELSE IF ctors = NullObj \/ ctors.kind # "func"
                   THEN Raise(s, "Did not find __wasm_call_ctors")
              ELSE IF result # 0
                   THEN Raise(Invoke(s, module, WASM_CTORS_FUNC_NAME),
                              "__wasm_call_ctors failed")
              ELSE Invoke(s, module, WASM_CTORS_FUNC_NAME)
          : s \in {s0} })

\* the first load with the last-loaded cursor moved behind createModuleInstance
loadNewDynamicModuleCursorLast(s0, path, f, before, ctorsResult) ==
    The({ The({ The({
                IF s3.exc # "none" THEN s3
                ELSE [s3 EXCEPT !.ret = 2 + Cardinality(DOMAIN s.dmm)]
          : s3 \in {executeWasmConstructorsFunction(s2, s2.inst, ctorsResult)} })
          : s2 \in { The({ [c EXCEPT !.cursor = 2 + Cardinality(DOMAIN s.dmm)]
                           : c \in {createModuleInstance(
                                      [s EXCEPT !.p2h = MapPut(@, path,
                                                          2 + Cardinality(DOMAIN s.dmm))],
                                      path, path, f, before)} }) } })
          : s \in {s0} })

\* the part of dynamicLoadModule that loads a module not seen before
loadNewDynamicModule(s0, path, f, before, ctorsResult) ==
    The({ The({ The({
                IF s3.exc # "none" THEN s3
                ELSE [s3 EXCEPT !.ret = 2 + Cardinality(DOMAIN s.dmm)]
          : s3 \in {executeWasmConstructorsFunction(s2, s2.inst, ctorsResult)} })
          : s2 \in {createModuleInstance(
                      [s EXCEPT !.p2h = MapPut(@, path, 2 + Cardinality(DOMAIN s.dmm)),
                                !.cursor = 2 + Cardinality(DOMAIN s.dmm)],
                      path, path, f, before)} })
          : s \in {s0} })

\* dynamicLoadModule without the look-up of the path in dynamicPathToHandleMap
dynamicLoadModuleNoCache(s0, path, f, before, ctorsResult) ==
    The({ IF path = "" THEN [s EXCEPT !.ret = MAIN_MODULE_DYNLINK_HANDLE]
          ELSE IF IsDirectory(path) THEN [s EXCEPT !.ret = 0]
          ELSE IF ~Exists(path) THEN [s EXCEPT !.ret = 0]
          ELSE loadNewDynamicModule(s, path, f, before, ctorsResult)
          : s \in {s0} })

\* WAVMWasmModule::dynamicLoadModule: leaves the handle in s.ret
dynamicLoadModule(s0, path, f, before, ctorsResult) ==
    The({ IF path \in DOMAIN s.p2h THEN [s EXCEPT !.ret = s.p2h[path]]
          ELSE IF path = "" THEN [s EXCEPT !.ret = MAIN_MODULE_DYNLINK_HANDLE]
          ELSE IF IsDirectory(path) THEN [s EXCEPT !.ret = 0]
          ELSE IF ~Exists(path) THEN [s EXCEPT !.ret = 0]
          ELSE loadNewDynamicModule(s, path, f, before, ctorsResult)
          : s \in {s0} })

----------------------------------------------------------------------------
(* Operations: each packs the module's fields into a working state, runs    *)
(* the handler on it and commits what the handler left behind.              *)

Self ==
    [ tbl |-> tableElems, pages |-> memNumPages, noacc |-> memNoAccess,
      got |-> globalOffsetTableMap, gom |-> globalOffsetMemoryMap,
      miss |-> missingGlobalOffsetEntries, p2h |-> dynamicPathToHandleMap,
      dmm |-> dynamicModuleMap, cursor |-> lastLoadedDynamicModuleHandle,
      env |-> envModule, wasi |-> wasiModule, main |-> moduleInstance,
      mem |-> defaultMemory, table |-> defaultTable, fn |-> boundFunction,
      exec |-> executingModule, exc |-> "none", ret |-> 0,
      nT |-> 0, nM |-> 0, nP |-> 0, nG |-> 0, inv |-> << >>, globs |-> << >>,
      linkOk |-> TRUE, res |-> NullObj, inst |-> "null", rv |-> 0, args |-> << >>,
      patched |-> EmptyMap, maps |-> << >> ]

Commit(s) ==
    /\ tableElems' = s.tbl
    /\ memNumPages' = s.pages
    /\ memNoAccess' = s.noacc
    /\ globalOffsetTableMap' = s.got
    /\ globalOffsetMemoryMap' = s.gom
    /\ missingGlobalOffsetEntries' = s.miss
    /\ dynamicPathToHandleMap' = s.p2h
    /\ dynamicModuleMap' = s.dmm
    /\ lastLoadedDynamicModuleHandle' = s.cursor
    /\ envModule' = s.env
    /\ wasiModule' = s.wasi
    /\ moduleInstance' = s.main
    /\ defaultMemory' = s.mem
    /\ defaultTable' = s.table
    /\ executingModule' = s.exec
    /\ crashed' = (s.exc = CRASH)

\* the injected fault is the one the operation ran into
Fired(s, f) ==
    CASE f.kind = "growTable" -> s.nT = f.at
      [] f.kind = "growMemory" -> s.nM = f.at
      [] f.kind = "mprotect" -> s.nP = f.at
      [] f.kind = "createGlobal" -> s.nG = f.at
      [] OTHER -> TRUE

Inject(s, f) == f = NoFault \/ Fired(s, f)

\* no guest code was asked to run
NoOutcome == [kind |-> "none", value |-> 0]

NoMsg == [user |-> "", function |-> "", funcptr |-> 0, inputdata |-> "",
          ompdepth |-> 0, returnvalue |-> 0]

\* the calls made on the other module
OtherOperations ==
    {"other.bindToFunction", "other.dynamicLoad", "other.getDynamicModuleFunction",
     "other.mmapPages", "other.snapshot", "other.tearDown", "other.writeMemory"}

\* the ranges of pages [lo, hi) mmapPages handed out on this module since its
\* memory was created, those of the call included; tearDown and clone drop
\* the memory they were handed out in
HandedOut(op, s) ==
    IF op \in {"tearDown", "clone"} THEN << >>
    ELSE IF op \in OtherOperations THEN last.maps
    ELSE last.maps \o s.maps

\* the record of a call
Call(op, path, handle, name, s, f) ==
    [ op |-> op, path |-> path, handle |-> handle, name |-> name,
      ret |-> s.ret, exc |-> s.exc, fault |-> f, inv |-> s.inv, args |-> s.args,
      globs |-> s.globs, patched |-> s.patched,
      fresh |-> FALSE, flag |-> FALSE, msg |-> NoMsg, returnvalue0 |-> 0,
      outcome |-> NoOutcome, remapped |-> {}, maps |-> HandedOut(op, s) ]

\* a WAVMWasmModule as one value: the fields of the object together with the
\* memory and table of its compartment.  remapped names the handles whose
\* instances the last clone into it remapped to its own compartment (1 stands
\* for env, WASI and the main instance).
NewModule ==
    [ isBound |-> FALSE, boundUser |-> "", boundFunction |-> "",
      compartment |-> 0, executionContext |-> 0, memData |-> EmptyMap,
      tbl |-> << >>, pages |-> 0, noacc |-> {},
      got |-> EmptyMap, gom |-> EmptyMap, miss |-> EmptyMap, p2h |-> EmptyMap,
      dmm |-> EmptyMap, cursor |-> 0,
      env |-> "null", wasi |-> "null", main |-> "null", mem |-> "null",
      table |-> "null", remapped |-> {} ]

\* no snapshot was written yet
NoSnapshot == [numPages |-> 0, data |-> EmptyMap, written |-> FALSE]

\* the threads that call getEnvModule / getWasiModule
Threads == {1, 2}

\* calls of getEnvModule / getWasiModule per thread
MaxCalls == 2

IdleThread == [pc |-> "idle", call |-> "none", ret |-> "none", calls |-> 0]

\* the WAVMWasmModule objects the threads execute
ModuleInstances == {"m1", "m2"}

\* calls of execute / executeFunction per thread
MaxExecutes == 2

\* a thread outside execute: its thread_local executingModule is zero-initialised
IdleWorker == [pc |-> "idle", this |-> "null", entry |-> "none",
               executingModule |-> "null", seen |-> "none", calls |-> 0]

Init ==
    /\ isBound = FALSE
    /\ boundUser = ""
    /\ boundFunction = ""
    /\ compartment = 0
    /\ executionContext = 0
    /\ envModule = "null"
    /\ wasiModule = "null"
    /\ moduleInstance = "null"
    /\ defaultMemory = "null"
    /\ defaultTable = "null"
    /\ memNumPages = 0
    /\ memNoAccess = {}
    /\ tableElems = << >>
    /\ globalOffsetTableMap = EmptyMap
    /\ globalOffsetMemoryMap = EmptyMap
    /\ missingGlobalOffsetEntries = EmptyMap
    /\ dynamicPathToHandleMap = EmptyMap
    /\ dynamicModuleMap = EmptyMap
    /\ lastLoadedDynamicModuleHandle = 0
    /\ executingModule = "null"
    /\ mmaps = 0
    /\ compartmentsCreated = 0
    /\ crashed = FALSE
    /\ memData = EmptyMap
    /\ other = NewModule
    /\ snapshot = NoSnapshot
    /\ baseEnvModule = "null"
    /\ baseWasiModule = "null"
    /\ baseModuleMx = 0
    /\ baseCompartments = 0
    /\ threads = [t \in Threads |-> IdleThread]
    /\ workers = [t \in Threads |-> IdleWorker]
    /\ last = [ op |-> "none", path |-> "", handle |-> 0, name |-> "",
                ret |-> 0, exc |-> "none", fault |-> NoFault, inv |-> << >>,
                args |-> << >>,
                globs |-> << >>, patched |-> EmptyMap, fresh |-> FALSE, flag |-> FALSE, msg |-> NoMsg,
                returnvalue0 |-> 0, outcome |-> NoOutcome, remapped |-> {},
                maps |-> << >> ]

\* a dynamicLoad on a module whose maps and registry are shared with the
\* module it was cloned from: the load writes through to the source
DynamicLoadWritingThrough(path, f, before, ctorsResult) ==
    LET fresh == path \notin DOMAIN dynamicPathToHandleMap /\ Loadable(path)
    IN  /\ ~crashed
        /\ fresh => Cardinality(DOMAIN dynamicPathToHandleMap) < MaxLoads
        /\ fresh \/ (f = NoFault /\ before = {} /\ ctorsResult = 0)
        /\ f = NoFault \/ (before = {} /\ ctorsResult = 0)
        /\ before = {} \/ ctorsResult = 0
        /\ \E s \in {dynamicLoadModule(Self, path, f, before, ctorsResult)} :
            /\ ctorsResult = 0 \/ s.inv # << >>
            /\ before = {} \/ s.exc = "Failed linking module on missing GOT entry"
            /\ Inject(s, f)
            /\ Commit(s)
            /\ other' = [other EXCEPT !.got = s.got, !.gom = s.gom, !.miss = s.miss,
                                      !.p2h = s.p2h, !.dmm = s.dmm, !.cursor = s.cursor]
            /\ last' = [Call("dynamicLoad", path, 0, "", s, f) EXCEPT !.fresh = fresh]
        /\ UNCHANGED << memData, snapshot, baseVars, isBound, boundUser, boundFunction,
                        compartment, executionContext, mmaps, compartmentsCreated >>

\* int handle = module->dynamicLoadModule(path, context)
DynamicLoad(path, f, before, ctorsResult) ==
    LET fresh == path \notin DOMAIN dynamicPathToHandleMap /\ Loadable(path)
    IN  /\ ~crashed
        /\ fresh => Cardinality(DOMAIN dynamicPathToHandleMap) < MaxLoads
        /\ fresh \/ (f = NoFault /\ before = {} /\ ctorsResult = 0)
        /\ f = NoFault \/ (before = {} /\ ctorsResult = 0)
        /\ before = {} \/ ctorsResult = 0
        /\ \E s \in {dynamicLoadModule(Self, path, f, before, ctorsResult)} :
            /\ ctorsResult = 0 \/ s.inv # << >>
            /\ before = {} \/ s.exc = "Failed linking module on missing GOT entry"
            /\ Inject(s, f)
            /\ Commit(s)
            /\ last' = [Call("dynamicLoad", path, 0, "", s, f) EXCEPT !.fresh = fresh]
        /\ UNCHANGED << memData, restVars, isBound, boundUser, boundFunction, compartment,
                        executionContext, mmaps, compartmentsCreated >>


\* WAVMWasmModule::getGlobalI32 on the main instance (values as initialised)
getGlobalI32(main, fn, globalName) ==
    LET mod == getModule(fn, "")
    IN  IF \E g \in mod.globals : g.name = globalName /\ Exp(globalName, "global") \in mod.exports
        THEN (CHOOSE g \in mod.globals : g.name = globalName).value
        ELSE -1

\* WAVMWasmModule::executeZygoteFunction
executeZygoteFunction(s0, result) ==
    The({ LET zygoteFunc == getInstanceExport(s.main, ZYGOTE_FUNC_NAME)
          IN  IF s.exc # "none" THEN s
              ELSE IF zygoteFunc = NullObj \/ zygoteFunc.kind # "func" THEN s
              ELSE IF result # 0
                   THEN Raise(Invoke(s, s.main, ZYGOTE_FUNC_NAME), "Zygote failed")
              ELSE Invoke(s, s.main, ZYGOTE_FUNC_NAME)
          : s \in {s0} })

\* the bind that runs the zygote function whatever executeZygote says
bindMainModuleAlwaysZygote(s0, function, executeZygote, ctorsResult, zygoteResult) ==
    The({ The({ The({
                LET heapBase == getGlobalI32(s4.main, function, "__heap_base")
                    dataEnd == getGlobalI32(s4.main, function, "__data_end")
                IN  IF s4.exc # "none" THEN s4
                    ELSE IF heapBase > 0 /\ dataEnd > 0 /\ heapBase # dataEnd
                         THEN Raise(s4, "Wasm memory layout not as expected")
                         ELSE s4
          : s4 \in { executeZygoteFunction(
                       executeWasmConstructorsFunction(s2, s2.main, ctorsResult),
                       zygoteResult) } })
          : s2 \in { IF s1.exc # "none" THEN s1
                     ELSE [s1 EXCEPT !.main = s1.inst, !.mem = "memory",
                                     !.table = "table"] } })
          : s1 \in {createModuleInstance([s0 EXCEPT !.fn = function], function, "",
                                         NoFault, {})} })

\* WAVMWasmModule::doBindToFunction once the bound check has passed
bindMainModule(s0, function, executeZygote, ctorsResult, zygoteResult) ==
    The({ The({ The({
                LET heapBase == getGlobalI32(s4.main, function, "__heap_base")
                    dataEnd == getGlobalI32(s4.main, function, "__data_end")
                IN  IF s4.exc # "none" THEN s4
                    ELSE IF heapBase > 0 /\ dataEnd > 0 /\ heapBase # dataEnd
                         THEN Raise(s4, "Wasm memory layout not as expected")
                         ELSE s4
          : s4 \in { IF executeZygote
                     THEN executeZygoteFunction(
                            executeWasmConstructorsFunction(s2, s2.main, ctorsResult),
                            zygoteResult)
                     ELSE executeWasmConstructorsFunction(s2, s2.main, ctorsResult) } })
          : s2 \in { IF s1.exc # "none" THEN s1
                     ELSE [s1 EXCEPT !.main = s1.inst, !.mem = "memory",
                                     !.table = "table"] } })
          : s1 \in {createModuleInstance([s0 EXCEPT !.fn = function], function, "",
                                         NoFault, {})} })

\* doBindToFunction without the check of _isBound
doBindToFunctionUnchecked(s, function, executeZygote, ctorsResult, zygoteResult) ==
    bindMainModule(s, function, executeZygote, ctorsResult, zygoteResult)

\* WAVMWasmModule::doBindToFunction
doBindToFunction(s, function, executeZygote, ctorsResult, zygoteResult) ==
    IF isBound THEN Raise(s, "Cannot bind a module twice")
    ELSE bindMainModule(s, function, executeZygote, ctorsResult, zygoteResult)

\* a bind that rolls the bound flag and the bound names back when it raises
BindToFunctionRollingBack(user, function, executeZygote, ctorsResult, zygoteResult) ==
    /\ ~crashed
    /\ isBound \/ compartmentsCreated < MaxCompartments
    /\ \E s \in {doBindToFunction(Self, function, executeZygote, ctorsResult,
                                  zygoteResult)} :
        /\ ctorsResult = 0 \/ s.inv # << >>
        /\ zygoteResult = 0 \/ Len(s.inv) > 1
        /\ last' = [Call("bindToFunction", "", 0, "", s, NoFault) EXCEPT
                      !.flag = executeZygote,
                      !.args = << ctorsResult, zygoteResult >>,
                      !.msg = [NoMsg EXCEPT !.user = user, !.function = function]]
        /\ IF s.exc = "Cannot bind a module twice"
           THEN UNCHANGED << memData, restVars, isBound, boundUser, boundFunction, compartment,
                             executionContext, envModule, wasiModule, moduleInstance,
                             defaultMemory, defaultTable, memNumPages, memNoAccess,
                             tableElems, globalOffsetTableMap, globalOffsetMemoryMap,
                             missingGlobalOffsetEntries, dynamicPathToHandleMap,
                             dynamicModuleMap, lastLoadedDynamicModuleHandle,
                             executingModule, mmaps, compartmentsCreated, crashed >>
           ELSE /\ isBound' = (s.exc = "none")
                /\ boundUser' = IF s.exc = "none" THEN user ELSE ""
                /\ boundFunction' = IF s.exc = "none" THEN function ELSE ""
                /\ compartmentsCreated' = compartmentsCreated + 1
                /\ compartment' = compartmentsCreated + 1
                /\ executionContext' = compartmentsCreated + 1
                /\ Commit(s)
                /\ memData' = EmptyMap
                /\ UNCHANGED << mmaps, restVars >>

\* bindToFunction / bindToFunctionNoZygote
BindToFunction(user, function, executeZygote, ctorsResult, zygoteResult) ==
    /\ ~crashed
    /\ isBound \/ compartmentsCreated < MaxCompartments
    /\ \E s \in {doBindToFunction(Self, function, executeZygote, ctorsResult,
                                  zygoteResult)} :
        /\ ctorsResult = 0 \/ s.inv # << >>
        /\ zygoteResult = 0 \/ Len(s.inv) > 1
        /\ last' = [Call("bindToFunction", "", 0, "", s, NoFault) EXCEPT
                      !.flag = executeZygote,
                      !.args = << ctorsResult, zygoteResult >>,
                      !.msg = [NoMsg EXCEPT !.user = user, !.function = function]]
        /\ IF s.exc = "Cannot bind a module twice"
           THEN UNCHANGED << memData, restVars, isBound, boundUser, boundFunction, compartment,
                             executionContext, envModule, wasiModule, moduleInstance,
                             defaultMemory, defaultTable, memNumPages, memNoAccess,
                             tableElems, globalOffsetTableMap, globalOffsetMemoryMap,
                             missingGlobalOffsetEntries, dynamicPathToHandleMap,
                             dynamicModuleMap, lastLoadedDynamicModuleHandle,
                             executingModule, mmaps, compartmentsCreated, crashed >>
           ELSE /\ isBound' = TRUE
                /\ boundUser' = user
                /\ boundFunction' = function
                /\ compartmentsCreated' = compartmentsCreated + 1
                /\ compartment' = compartmentsCreated + 1
                /\ executionContext' = compartmentsCreated + 1
                /\ Commit(s)
                /\ memData' = EmptyMap
                /\ UNCHANGED << mmaps, restVars >>

\* tearDown that nulls the instance pointers of the registry but keeps its records
tearDownKeepingRegistry(collected) ==
    LET s == [Self EXCEPT !.ret = IF compartment = 0 \/ collected THEN 1 ELSE 0]
    IN  /\ ~crashed
        /\ collected \/ compartment # 0
        /\ globalOffsetTableMap' = EmptyMap
        /\ globalOffsetMemoryMap' = EmptyMap
        /\ missingGlobalOffsetEntries' = EmptyMap
        /\ dynamicPathToHandleMap' = EmptyMap
        /\ dynamicModuleMap' = [h \in DOMAIN dynamicModuleMap |->
                                    [dynamicModuleMap[h] EXCEPT !.ptr = "null"]]
        /\ defaultMemory' = "null"
        /\ defaultTable' = "null"
        /\ moduleInstance' = "null"
        /\ envModule' = "null"
        /\ wasiModule' = "null"
        /\ executionContext' = 0
        /\ compartment' = 0
        /\ memNumPages' = 0
        /\ memNoAccess' = {}
        /\ tableElems' = << >>
        /\ memData' = EmptyMap
        /\ last' = Call("tearDown", "", 0, "", s, NoFault)
        /\ UNCHANGED << restVars, isBound, boundUser, boundFunction,
                        lastLoadedDynamicModuleHandle, executingModule, mmaps,
                        compartmentsCreated, crashed >>

\* a tearDown that also resets the bound flag and the last-loaded cursor
tearDownResettingBound(collected) ==
    LET s == [Self EXCEPT !.ret = IF compartment = 0 \/ collected THEN 1 ELSE 0]
    IN  /\ ~crashed
        /\ collected \/ compartment # 0
        /\ globalOffsetTableMap' = EmptyMap
        /\ globalOffsetMemoryMap' = EmptyMap
        /\ missingGlobalOffsetEntries' = EmptyMap
        /\ dynamicPathToHandleMap' = EmptyMap
        /\ dynamicModuleMap' = EmptyMap
        /\ defaultMemory' = "null"
        /\ defaultTable' = "null"
        /\ moduleInstance' = "null"
        /\ envModule' = "null"
        /\ wasiModule' = "null"
        /\ executionContext' = 0
        /\ compartment' = 0
        /\ memNumPages' = 0
        /\ memNoAccess' = {}
        /\ tableElems' = << >>
        /\ memData' = EmptyMap
        /\ isBound' = FALSE
        /\ lastLoadedDynamicModuleHandle' = 0
        /\ last' = Call("tearDown", "", 0, "", s, NoFault)
        /\ UNCHANGED << restVars, boundUser, boundFunction,
                        executingModule, mmaps, compartmentsCreated, crashed >>

\* WAVMWasmModule::tearDown; collected is what tryCollectCompartment answers
TearDown(collected) ==
    LET s == [Self EXCEPT !.ret = IF compartment = 0 \/ collected THEN 1 ELSE 0]
    IN  /\ ~crashed
        /\ collected \/ compartment # 0
        /\ globalOffsetTableMap' = EmptyMap
        /\ globalOffsetMemoryMap' = EmptyMap
        /\ missingGlobalOffsetEntries' = EmptyMap
        /\ dynamicPathToHandleMap' = EmptyMap
        /\ dynamicModuleMap' = EmptyMap
        /\ defaultMemory' = "null"
        /\ defaultTable' = "null"
        /\ moduleInstance' = "null"
        /\ envModule' = "null"
        /\ wasiModule' = "null"
        /\ executionContext' = 0
        /\ compartment' = 0
        /\ memNumPages' = 0
        /\ memNoAccess' = {}
        /\ tableElems' = << >>
        /\ memData' = EmptyMap
        /\ last' = Call("tearDown", "", 0, "", s, NoFault)
        /\ UNCHANGED << restVars, isBound, boundUser, boundFunction,
                        lastLoadedDynamicModuleHandle, executingModule, mmaps,
                        compartmentsCreated, crashed >>

\* getDynamicModuleFunction that answers a repeated name from functionOffsets
\* instead of adding a table slot
getDynamicModuleFunctionCached(s0, handle, funcName, f) ==
    The({ LET fromEnv == getInstanceExport(s.env, funcName)
              fromMain == getInstanceExport(s.main, funcName)
              fromWasi == getInstanceExport(s.wasi, funcName)
              exportedFunc ==
                  IF handle = MAIN_MODULE_DYNLINK_HANDLE
                  THEN IF fromEnv # NullObj THEN fromEnv
                       ELSE IF fromMain # NullObj THEN fromMain ELSE fromWasi
                  ELSE getInstanceExport(s.dmm[handle].ptr, funcName)
          IN  IF handle = MAIN_MODULE_DYNLINK_HANDLE
                  /\ (s.env = "null" \/ s.main = "null" \/ s.wasi = "null")
              THEN Raise(s, CRASH)
              ELSE IF handle # MAIN_MODULE_DYNLINK_HANDLE /\ handle \notin DOMAIN s.dmm
              THEN Raise(s, "Missing dynamic module")
              ELSE IF handle # MAIN_MODULE_DYNLINK_HANDLE /\ s.dmm[handle].ptr = "null"
              THEN Raise(s, CRASH)
              ELSE IF exportedFunc = NullObj
              THEN Raise(s, "Missing dynamic module function")
              ELSE IF funcName \in DOMAIN s.got
              THEN [s EXCEPT !.ret = s.got[funcName]]
              ELSE addFunctionToTable(s, exportedFunc, f)
          : s \in {s0} })

\* WAVMWasmModule::getDynamicModuleFunction: leaves the table index in s.ret
getDynamicModuleFunction(s0, handle, funcName, f) ==
    The({ LET fromEnv == getInstanceExport(s.env, funcName)
              fromMain == getInstanceExport(s.main, funcName)
              fromWasi == getInstanceExport(s.wasi, funcName)
              exportedFunc ==
                  IF handle = MAIN_MODULE_DYNLINK_HANDLE
                  THEN IF fromEnv # NullObj THEN fromEnv
                       ELSE IF fromMain # NullObj THEN fromMain ELSE fromWasi
                  ELSE getInstanceExport(s.dmm[handle].ptr, funcName)
          IN  IF handle = MAIN_MODULE_DYNLINK_HANDLE
                  /\ (s.env = "null" \/ s.main = "null" \/ s.wasi = "null")
              THEN Raise(s, CRASH)
              ELSE IF handle # MAIN_MODULE_DYNLINK_HANDLE /\ handle \notin DOMAIN s.dmm
              THEN Raise(s, "Missing dynamic module")
              ELSE IF handle # MAIN_MODULE_DYNLINK_HANDLE /\ s.dmm[handle].ptr = "null"
              THEN Raise(s, CRASH)
              ELSE IF exportedFunc = NullObj
              THEN Raise(s, "Missing dynamic module function")
              ELSE addFunctionToTable(s, exportedFunc, f)
          : s \in {s0} })

GetDynamicModuleFunction(handle, funcName, f) ==
    /\ ~crashed
    /\ \E s \in {getDynamicModuleFunction(Self, handle, funcName, f)} :
        /\ Len(s.tbl) <= MaxTableElems \/ Len(s.tbl) = Len(tableElems)
        /\ Inject(s, f)
        /\ Commit(s)
        /\ last' = Call("getDynamicModuleFunction", "", handle, funcName, s, f)
    /\ UNCHANGED << memData, restVars, isBound, boundUser, boundFunction, compartment,
                    executionContext, mmaps, compartmentsCreated >>

\* a direct WAVMWasmModule::mmapPages(pages)
MmapPages(pages, f) ==
    /\ ~crashed
    /\ mmaps < MaxMmaps
    /\ mmaps' = mmaps + 1
    /\ \E s \in {mmapPages(Self, pages, f)} :
        /\ Inject(s, f)
        /\ Commit(s)
        /\ last' = [Call("mmapPages", "", pages, "", s, f) EXCEPT
                      !.returnvalue0 = memNumPages]
    /\ UNCHANGED << memData, restVars, isBound, boundUser, boundFunction, compartment,
                    executionContext, compartmentsCreated >>

\* a direct WAVMWasmModule::allocateThreadStack()
AllocateThreadStack(f) ==
    /\ ~crashed
    /\ mmaps < MaxMmaps
    /\ mmaps' = mmaps + 1
    /\ \E s \in {allocateThreadStack(Self, f)} :
        /\ Inject(s, f)
        /\ Commit(s)
        /\ last' = [Call("allocateThreadStack", "", 0, "", s, f) EXCEPT
                      !.returnvalue0 = memNumPages]
    /\ UNCHANGED << memData, restVars, isBound, boundUser, boundFunction, compartment,
                    executionContext, compartmentsCreated >>


----------------------------------------------------------------------------
(* execute *)

\* what the invoked guest code does: return a value, trap, or call exit(code)
Outcomes ==
    { [kind |-> "return", value |-> 0], [kind |-> "return", value |-> 42],
      [kind |-> "trap", value |-> 0],
      [kind |-> "exit", value |-> 0], [kind |-> "exit", value |-> 7] }

\* the messages execute is called with
Messages ==
    { m \in [ user : {"demo", "alice"}, function : {"hello", "echo"},
              funcptr : {0, 1, 4}, inputdata : {"", "5"}, ompdepth : {0, 1},
              returnvalue : {0, 9} ] :
        /\ (m.user # "demo" \/ m.function # "hello")
              => (m.funcptr = 0 /\ m.inputdata = "" /\ m.ompdepth = 0)
        /\ m.inputdata = "5" => (m.funcptr > 0 /\ m.ompdepth = 0)
        /\ m.returnvalue = 9 => (m.funcptr = 0 /\ m.ompdepth = 0) }

\* Runtime::getFunctionType(func).params().size()
nParams(func) ==
    CASE func.name = "g" -> 1
      [] func.name = "bx" -> 2
      [] OTHER -> 0

\* std::stoi(msg.inputdata()) of the inputs of the model
stoi(str) == IF str = "5" THEN 5 ELSE 0

\* the value the invoker hands back, and whether execute reports success
ReturnValueOf(outcome) == IF outcome.kind = "trap" THEN 1 ELSE outcome.value

SuccessOf(outcome) ==
    CASE outcome.kind = "return" -> TRUE
      [] outcome.kind = "trap" -> FALSE
      [] OTHER -> outcome.value = 0

\* threadContext->runtimeData->mutableGlobals[0] = stackTop, recorded with the
\* globals the operation set
setStackGlobal(s, stackTop) ==
    [s EXCEPT !.globs = Append(@, [from |-> "threadContext", name |-> "mutableGlobals[0]",
                                   value |-> stackTop, isMutable |-> TRUE])]

\* executeThreadLocally without the check of the context's first mutable global
executeThreadLocallyUnchecked(s0, func, args, outcome) ==
    The({ IF s.exc # "none" THEN s
          ELSE [setStackGlobal(s, s.ret + THREAD_STACK_SIZE - 1) EXCEPT
                         !.inv = Append(@, << func.inst, func.name >>),
                         !.exec = "self",
                         !.ret = ReturnValueOf(outcome), !.args = args]
          : s \in {s0} })

\* WAVMWasmModule::executeThreadLocally: s0.ret is spec.stackTop, the offset
\* allocateThreadStack returned; leaves the return value in s.ret
executeThreadLocally(s0, func, args, outcome) ==
    The({ IF s.exc # "none" THEN s
          ELSE IF getModule(s.fn, "").stackInit # STACK_SIZE
               THEN Raise(s, "Unexpected mutable global format")
          ELSE [setStackGlobal(s, s.ret + THREAD_STACK_SIZE - 1) EXCEPT
                         !.inv = Append(@, << func.inst, func.name >>),
                         !.exec = "self",
                         !.ret = ReturnValueOf(outcome), !.args = args]
          : s \in {s0} })

\* WAVMWasmModule::executeRemoteOMP: leaves msg.returnvalue in s.ret
executeRemoteOMP(s0, m, outcome, f) ==
    The({ IF s.table = "null" \/ getTableElement(s.tbl, m.funcptr) = NullObj
          THEN Raise(s, CRASH)
          ELSE executeThreadLocally(allocateThreadStack(s, f),
                                    getTableElement(s.tbl, m.funcptr), << 0, 0 >>, outcome)
          : s \in {s0} })

\* execute that clears the link state of the module when the guest code fails
executeBoundTearingDown(sIn, m, forceNoop, outcome, f) ==
    The({ LET byPtr == getTableElement(s0.tbl, m.funcptr)
              main == getInstanceExport(s0.main, ENTRY_FUNC_NAME)
              funcInstance == IF m.funcptr > 0 THEN byPtr ELSE main
              invokeArgs == IF m.funcptr > 0 /\ nParams(byPtr) = 1
                            THEN IF m.inputdata = "" THEN << 0 >>
                                 ELSE << stoi(m.inputdata) >>
                            ELSE << >>
          IN  IF m.ompdepth > 0
              THEN The({ IF omp.exc # "none" THEN omp
                         ELSE [omp EXCEPT !.rv = omp.ret, !.ret = 1]
                         : omp \in {executeRemoteOMP(s0, m, outcome, f)} })
              ELSE IF m.funcptr > 0
                      /\ (s0.table = "null" \/ byPtr = NullObj \/ byPtr.kind # "func")
              THEN Raise(s0, CRASH)
              ELSE IF m.funcptr > 0 /\ nParams(byPtr) > 1
              THEN Raise(s0, "Unexpected function pointer args")
              ELSE IF m.funcptr <= 0 /\ s0.main = "null"
              THEN Raise(s0, CRASH)
              ELSE IF m.funcptr <= 0 /\ (main = NullObj \/ main.kind # "func")
              THEN Raise(s0, "Missing exported function")
              ELSE IF forceNoop THEN [s0 EXCEPT !.rv = 0, !.ret = 1]
              ELSE IF SuccessOf(outcome)
              THEN [s0 EXCEPT !.inv = Append(@, << funcInstance.inst, funcInstance.name >>),
                              !.rv = ReturnValueOf(outcome), !.args = invokeArgs, !.ret = 1]
              ELSE [s0 EXCEPT !.inv = Append(@, << funcInstance.inst, funcInstance.name >>),
                              !.rv = ReturnValueOf(outcome), !.args = invokeArgs, !.ret = 0,
                              !.got = EmptyMap, !.gom = EmptyMap, !.miss = EmptyMap,
                              !.p2h = EmptyMap, !.dmm = EmptyMap, !.main = "null"]
          : s0 \in {[sIn EXCEPT !.exec = "self"]} })

\* WAVMWasmModule::execute after the bound checks: s.ret is the success flag,
\* s.rv the value recorded on the message
executeBound(sIn, m, forceNoop, outcome, f) ==
    The({ LET byPtr == getTableElement(s0.tbl, m.funcptr)
              main == getInstanceExport(s0.main, ENTRY_FUNC_NAME)
              funcInstance == IF m.funcptr > 0 THEN byPtr ELSE main
              invokeArgs == IF m.funcptr > 0 /\ nParams(byPtr) = 1
                            THEN IF m.inputdata = "" THEN << 0 >>
                                 ELSE << stoi(m.inputdata) >>
                            ELSE << >>
          IN  IF m.ompdepth > 0
              THEN The({ IF omp.exc # "none" THEN omp
                         ELSE [omp EXCEPT !.rv = omp.ret, !.ret = 1]
                         : omp \in {executeRemoteOMP(s0, m, outcome, f)} })
              ELSE IF m.funcptr > 0
                      /\ (s0.table = "null" \/ byPtr = NullObj \/ byPtr.kind # "func")
              THEN Raise(s0, CRASH)
              ELSE IF m.funcptr > 0 /\ nParams(byPtr) > 1
              THEN Raise(s0, "Unexpected function pointer args")
              ELSE IF m.funcptr <= 0 /\ s0.main = "null"
              THEN Raise(s0, CRASH)
              ELSE IF m.funcptr <= 0 /\ (main = NullObj \/ main.kind # "func")
              THEN Raise(s0, "Missing exported function")
              ELSE IF forceNoop THEN [s0 EXCEPT !.rv = 0, !.ret = 1]
              ELSE [s0 EXCEPT !.inv = Append(@, << funcInstance.inst, funcInstance.name >>),
                              !.rv = ReturnValueOf(outcome), !.args = invokeArgs,
                              !.ret = IF SuccessOf(outcome) THEN 1 ELSE 0]
          : s0 \in {[sIn EXCEPT !.exec = "self"]} })

\* execute with setExecutingModule(this) moved ahead of the bound checks
executeSettingModuleFirst(s, m, forceNoop, outcome, f) ==
    IF ~isBound
    THEN Raise([s EXCEPT !.exec = "self"],
               "WasmModule must be bound before executing function")
    ELSE IF boundUser # m.user \/ boundFunction # m.function
         THEN Raise([s EXCEPT !.exec = "self"],
                    "Cannot execute function on module bound to another")
         ELSE executeBound(s, m, forceNoop, outcome, f)

\* WAVMWasmModule::execute
execute(s, m, forceNoop, outcome, f) ==
    IF ~isBound
    THEN Raise(s, "WasmModule must be bound before executing function")
    ELSE IF boundUser # m.user \/ boundFunction # m.function
         THEN Raise(s, "Cannot execute function on module bound to another")
         ELSE executeBound(s, m, forceNoop, outcome, f)

Execute(m, forceNoop, outcome, f) ==
    /\ ~crashed
    /\ ~forceNoop \/ (m.ompdepth = 0 /\ m.returnvalue = 0)
    /\ \E s \in {execute([Self EXCEPT !.rv = m.returnvalue], m, forceNoop, outcome, f)} :
        /\ outcome = [kind |-> "return", value |-> 0] \/ s.inv # << >>
        /\ Len(s.tbl) <= MaxTableElems
        /\ Inject(s, f)
        /\ Commit(s)
        /\ last' = [Call("execute", "", 0, "", s, f) EXCEPT
                       !.flag = forceNoop,
                       !.msg = [m EXCEPT !.returnvalue = s.rv],
                       !.returnvalue0 = m.returnvalue,
                       !.outcome = IF s.inv # << >> THEN outcome ELSE NoOutcome]
    /\ UNCHANGED << memData, restVars, isBound, boundUser, boundFunction, compartment,
                    executionContext, mmaps, compartmentsCreated >>

----------------------------------------------------------------------------
(* clone: this module and a second one, `other`, the source of the clone    *)

\* this module as one value
This ==
    [ isBound |-> isBound, boundUser |-> boundUser, boundFunction |-> boundFunction,
      compartment |-> compartment, executionContext |-> executionContext,
      memData |-> memData,
      tbl |-> tableElems, pages |-> memNumPages, noacc |-> memNoAccess,
      got |-> globalOffsetTableMap, gom |-> globalOffsetMemoryMap,
      miss |-> missingGlobalOffsetEntries, p2h |-> dynamicPathToHandleMap,
      dmm |-> dynamicModuleMap, cursor |-> lastLoadedDynamicModuleHandle,
      env |-> envModule, wasi |-> wasiModule, main |-> moduleInstance,
      mem |-> defaultMemory, table |-> defaultTable, remapped |-> {} ]

\* the working state of an operation that runs on module m
Working(m) ==
    [ tbl |-> m.tbl, pages |-> m.pages, noacc |-> m.noacc,
      got |-> m.got, gom |-> m.gom, miss |-> m.miss, p2h |-> m.p2h,
      dmm |-> m.dmm, cursor |-> m.cursor,
      env |-> m.env, wasi |-> m.wasi, main |-> m.main,
      mem |-> m.mem, table |-> m.table, fn |-> m.boundFunction,
      exec |-> executingModule, exc |-> "none", ret |-> 0,
      nT |-> 0, nM |-> 0, nP |-> 0, nG |-> 0, inv |-> << >>, globs |-> << >>,
      linkOk |-> TRUE, res |-> NullObj, inst |-> "null", rv |-> 0, args |-> << >>,
      patched |-> EmptyMap, maps |-> << >> ]

\* module m with the fields the operation left behind in s
Kept(m, s) ==
    [ m EXCEPT !.tbl = s.tbl, !.pages = s.pages, !.noacc = s.noacc,
               !.got = s.got, !.gom = s.gom, !.miss = s.miss, !.p2h = s.p2h,
               !.dmm = s.dmm, !.cursor = s.cursor,
               !.env = s.env, !.wasi = s.wasi, !.main = s.main,
               !.mem = s.mem, !.table = s.table ]

\* this module becomes the value c
PutThis(c) ==
    /\ isBound' = c.isBound
    /\ boundUser' = c.boundUser
    /\ boundFunction' = c.boundFunction
    /\ compartment' = c.compartment
    /\ executionContext' = c.executionContext
    /\ memData' = c.memData
    /\ tableElems' = c.tbl
    /\ memNumPages' = c.pages
    /\ memNoAccess' = c.noacc
    /\ globalOffsetTableMap' = c.got
    /\ globalOffsetMemoryMap' = c.gom
    /\ missingGlobalOffsetEntries' = c.miss
    /\ dynamicPathToHandleMap' = c.p2h
    /\ dynamicModuleMap' = c.dmm
    /\ lastLoadedDynamicModuleHandle' = c.cursor
    /\ envModule' = c.env
    /\ wasiModule' = c.wasi
    /\ moduleInstance' = c.main
    /\ defaultMemory' = c.mem
    /\ defaultTable' = c.table

\* WAVMWasmModule::tearDown on module m: the maps are cleared, the handles
\* nulled, and the module no longer reaches its compartment's memory and table
tearDownModule(m) ==
    [ m EXCEPT !.got = EmptyMap, !.gom = EmptyMap, !.miss = EmptyMap,
               !.p2h = EmptyMap, !.dmm = EmptyMap,
               !.mem = "null", !.table = "null", !.main = "null",
               !.env = "null", !.wasi = "null",
               !.executionContext = 0, !.compartment = 0,
               !.pages = 0, !.noacc = {}, !.tbl = << >>, !.memData = EmptyMap ]

\* Runtime::remapToClonedCompartment(p.second.ptr, compartment) for every
\* record of other.dynamicModuleMap: dynamicModuleMap[p.first] = p.second
remapDynamicModules(own, theirs) ==
    [ h \in DOMAIN own \cup DOMAIN theirs |->
        IF h \in DOMAIN theirs THEN theirs[h] ELSE own[h] ]

\* clone dereferences a null handle of the source
cloneCrashes(oth) ==
    oth.isBound /\ (oth.compartment = 0 \/ oth.executionContext = 0 \/ oth.main = "null")

\* the body of clone after the tearDown of a bound target (lines 135-199);
\* remapHandles: the registry's instance pointers go through
\* remapToClonedCompartment
cloneFrom(m0, oth, newCompartment, guardsKept, remapHandles) ==
    The({ IF ~oth.isBound \/ cloneCrashes(oth) THEN m
          ELSE [ m EXCEPT !.compartment = newCompartment,
                          !.executionContext = newCompartment,
                          !.env = oth.env, !.wasi = oth.wasi, !.main = oth.main,
                          !.mem = "memory", !.table = "table",
                          !.tbl = oth.tbl, !.pages = oth.pages,
                          !.noacc = IF guardsKept THEN oth.noacc ELSE {},
                          !.memData = oth.memData,
                          !.cursor = oth.cursor, !.p2h = oth.p2h,
                          !.dmm = remapDynamicModules(m.dmm, oth.dmm),
                          !.got = oth.got, !.gom = oth.gom, !.miss = oth.miss,
                          !.remapped = {MAIN_MODULE_DYNLINK_HANDLE}
                                         \cup (IF remapHandles THEN DOMAIN oth.dmm ELSE {}) ]
          : m \in {[ m0 EXCEPT !.isBound = oth.isBound,
                               !.boundUser = oth.boundUser,
                               !.boundFunction = oth.boundFunction ]} })

\* clone that does not tear a bound target down first
cloneWithoutTearDown(m, oth, newCompartment, guardsKept) ==
    cloneFrom(m, oth, newCompartment, guardsKept, TRUE)

\* clone that copies the registry records with the source's instance pointers
cloneWithoutRemap(m, oth, newCompartment, guardsKept) ==
    cloneFrom(IF m.isBound THEN tearDownModule(m) ELSE m, oth, newCompartment,
              guardsKept, FALSE)

\* WAVMWasmModule::clone(other) with memoryFd = 0; guardsKept is whether the
\* backend's cloneCompartment carries the page protections over
clone(m, oth, newCompartment, guardsKept) ==
    cloneFrom(IF m.isBound THEN tearDownModule(m) ELSE m, oth, newCompartment,
              guardsKept, TRUE)

\* 32-bit truncation of a size_t difference numPages - currentNumPages, as
\* the two 16-bit halves of the U32 (d < 0 wraps: 2^64 + d = 2^32 - |d| mod 2^32)
ToU32(d) ==
    IF d >= 0 THEN [hi |-> d \div 65536, lo |-> d % 65536]
    ELSE [hi |-> 65535 - ((-d - 1) \div 65536), lo |-> 65535 - ((-d - 1) % 65536)]

\* mmapPages(pages) for a U32 given by its halves: 65536 pages or more are
\* beyond every memory type's maximum
mmapPagesU32(s, pages, f) ==
    IF pages.hi = 0 THEN mmapPages(s, pages.lo, f)
    ELSE IF s.mem = "null" THEN Raise(s, CRASH)
    ELSE Raise(s, "Mmap exceeding max")

\* doSnapshot reads a page that is not there or is protected
snapshotCrashes(m) ==
    m.mem = "null" \/ \E p \in m.noacc : p < m.pages

\* WAVMWasmModule::doSnapshot: numPages and the bytes of all the pages
doSnapshot(m) == [numPages |-> m.pages, data |-> m.memData, written |-> TRUE]

\* memcpy(memBase, mem.data.data(), mem.numPages * WASM_BYTES_PER_PAGE)
memcpyPages(data, snap) ==
    [ p \in {q \in DOMAIN data : q >= snap.numPages} \cup DOMAIN snap.data |->
        IF p \in DOMAIN snap.data THEN snap.data[p] ELSE data[p] ]

\* doRestore with the page difference kept in a signed integer
doRestoreSigned(s0, snap, f) ==
    The({ IF s.mem = "null" THEN Raise(s, CRASH)
          ELSE The({ IF s1.exc # "none" THEN s1
                     ELSE IF \E p \in s1.noacc : p < snap.numPages THEN Raise(s1, CRASH)
                     ELSE s1
                     : s1 \in { IF snap.numPages - s.pages > 0
                                THEN mmapPages(s, snap.numPages - s.pages, f)
                                ELSE s } })
          : s \in {s0} })

\* WAVMWasmModule::doRestore up to the memcpy: grows the memory; the exception
\* it ends with tells whether the bytes were copied
doRestore(s0, snap, f) ==
    The({ IF s.mem = "null" THEN Raise(s, CRASH)
          ELSE The({ IF s1.exc # "none" THEN s1
                     ELSE IF \E p \in s1.noacc : p < snap.numPages THEN Raise(s1, CRASH)
                     ELSE s1
                     : s1 \in { IF snap.numPages # s.pages
                                THEN mmapPagesU32(s, ToU32(snap.numPages - s.pages), f)
                                ELSE s } })
          : s \in {s0} })

\* module.restore(stream) of the stream the last snapshot wrote
Restore(f) ==
    /\ ~crashed
    /\ snapshot.written
    /\ \E s \in {doRestore(Self, snapshot, f)} :
        /\ Inject(s, f)
        /\ Commit(s)
        /\ memData' = IF s.exc = "none" THEN memcpyPages(memData, snapshot) ELSE memData
        /\ last' = [Call("restore", "", snapshot.numPages, "", s, f) EXCEPT
                      !.returnvalue0 = memNumPages]
    /\ UNCHANGED << restVars, isBound, boundUser, boundFunction, compartment,
                    executionContext, mmaps, compartmentsCreated >>

\* other.snapshot(stream)
OtherSnapshot ==
    /\ ~crashed
    /\ other.isBound
    /\ snapshot' = IF snapshotCrashes(other) THEN snapshot ELSE doSnapshot(other)
    /\ crashed' = snapshotCrashes(other)
    /\ last' = [Call("other.snapshot", "", other.pages, "", Working(other), NoFault)
                  EXCEPT !.exc = IF snapshotCrashes(other) THEN CRASH ELSE "none"]
    /\ UNCHANGED << isBound, boundUser, boundFunction, compartment,
                    executionContext, envModule, wasiModule, moduleInstance,
                    defaultMemory, defaultTable, memNumPages, memNoAccess,
                    tableElems, globalOffsetTableMap, globalOffsetMemoryMap,
                    missingGlobalOffsetEntries, dynamicPathToHandleMap,
                    dynamicModuleMap, lastLoadedDynamicModuleHandle,
                    executingModule, mmaps, compartmentsCreated, memData, other,
                    baseVars >>

\* a write of value v into page `page` through wasmPointerToNative
WriteMemory(page, v) ==
    /\ ~crashed
    /\ defaultMemory # "null"
    /\ page < memNumPages
    /\ page \notin memNoAccess
    /\ memData' = MapPut(memData, page, v)
    /\ last' = [Call("writeMemory", "", page, "", Self, NoFault) EXCEPT !.ret = v]
    /\ UNCHANGED << isBound, boundUser, boundFunction, compartment,
                    executionContext, envModule, wasiModule, moduleInstance,
                    defaultMemory, defaultTable, memNumPages, memNoAccess,
                    tableElems, globalOffsetTableMap, globalOffsetMemoryMap,
                    missingGlobalOffsetEntries, dynamicPathToHandleMap,
                    dynamicModuleMap, lastLoadedDynamicModuleHandle,
                    executingModule, mmaps, compartmentsCreated, crashed,
                    restVars >>

\* the same write into the other module's memory
OtherWriteMemory(page, v) ==
    /\ ~crashed
    /\ other.mem # "null"
    /\ page < other.pages
    /\ page \notin other.noacc
    /\ other' = [other EXCEPT !.memData = MapPut(@, page, v)]
    /\ last' = [Call("other.writeMemory", "", page, "", Working(other), NoFault)
                  EXCEPT !.ret = v]
    /\ UNCHANGED << isBound, boundUser, boundFunction, compartment,
                    executionContext, envModule, wasiModule, moduleInstance,
                    defaultMemory, defaultTable, memNumPages, memNoAccess,
                    tableElems, globalOffsetTableMap, globalOffsetMemoryMap,
                    missingGlobalOffsetEntries, dynamicPathToHandleMap,
                    dynamicModuleMap, lastLoadedDynamicModuleHandle,
                    executingModule, mmaps, compartmentsCreated, crashed,
                    memData, snapshot, baseVars >>

\* other.mmapPages(pages)
OtherMmapPages(pages) ==
    /\ ~crashed
    /\ mmaps < MaxMmaps
    /\ mmaps' = mmaps + 1
    /\ \E s \in {mmapPages(Working(other), pages, NoFault)} :
        /\ other' = Kept(other, s)
        /\ crashed' = (s.exc = CRASH)
        /\ last' = [Call("other.mmapPages", "", pages, "", s, NoFault) EXCEPT
                      !.returnvalue0 = other.pages]
    /\ UNCHANGED << isBound, boundUser, boundFunction, compartment,
                    executionContext, envModule, wasiModule, moduleInstance,
                    defaultMemory, defaultTable, memNumPages, memNoAccess,
                    tableElems, globalOffsetTableMap, globalOffsetMemoryMap,
                    missingGlobalOffsetEntries, dynamicPathToHandleMap,
                    dynamicModuleMap, lastLoadedDynamicModuleHandle,
                    executingModule, compartmentsCreated, memData, snapshot,
                    baseVars >>

\* *this = other; the call record keeps the function this module was bound to
\* and the number of its registry records before the call
Clone(guardsKept) ==
    /\ ~crashed
    /\ guardsKept \/ (other.isBound /\ other.noacc # {})
    /\ other.isBound => compartmentsCreated < MaxCompartments
    /\ \E c \in {clone(This, other, compartmentsCreated + 1, guardsKept)} :
        /\ PutThis(c)
        /\ crashed' = cloneCrashes(other)
        /\ compartmentsCreated' = IF c.compartment = compartmentsCreated + 1
                                  THEN compartmentsCreated + 1
                                  ELSE compartmentsCreated
        /\ last' = [Call("clone", "", Cardinality(DOMAIN dynamicModuleMap),
                           IF isBound THEN boundFunction ELSE "", Self, NoFault)
                      EXCEPT !.flag = guardsKept, !.remapped = c.remapped]
    /\ UNCHANGED << executingModule, mmaps, restVars >>

\* other.bindToFunctionNoZygote(msg)
OtherBindToFunction(user, function) ==
    /\ ~crashed
    /\ other.isBound \/ compartmentsCreated < MaxCompartments
    /\ \E s \in { IF other.isBound
                  THEN Raise(Working(other), "Cannot bind a module twice")
                  ELSE bindMainModule(Working(other), function, FALSE, 0, 0) } :
        /\ other' = IF other.isBound THEN other
                    ELSE [ Kept(other, s) EXCEPT
                             !.isBound = TRUE, !.boundUser = user,
                             !.boundFunction = function,
                             !.compartment = compartmentsCreated + 1,
                             !.executionContext = compartmentsCreated + 1 ]
        /\ compartmentsCreated' = IF other.isBound THEN compartmentsCreated
                                  ELSE compartmentsCreated + 1
        /\ executingModule' = IF s.inv # << >> THEN "other" ELSE executingModule
        /\ crashed' = (s.exc = CRASH)
        /\ last' = [Call("other.bindToFunction", "", 0, "", s, NoFault) EXCEPT
                      !.msg = [NoMsg EXCEPT !.user = user, !.function = function]]
    /\ UNCHANGED << isBound, boundUser, boundFunction, compartment,
                    executionContext, envModule, wasiModule, moduleInstance,
                    defaultMemory, defaultTable, memNumPages, memNoAccess,
                    tableElems, globalOffsetTableMap, globalOffsetMemoryMap,
                    missingGlobalOffsetEntries, dynamicPathToHandleMap,
                    dynamicModuleMap, lastLoadedDynamicModuleHandle, mmaps,
                    memData, snapshot, baseVars >>

\* other.dynamicLoadModule(path, context)
OtherDynamicLoad(path) ==
    /\ ~crashed
    /\ other.isBound
    /\ (path \notin DOMAIN other.p2h /\ Loadable(path))
          => Cardinality(DOMAIN other.p2h) < MaxLoads
    /\ \E s \in {dynamicLoadModule(Working(other), path, NoFault, {}, 0)} :
        /\ other' = Kept(other, s)
        /\ executingModule' = IF s.inv # << >> THEN "other" ELSE executingModule
        /\ crashed' = (s.exc = CRASH)
        /\ last' = Call("other.dynamicLoad", path, 0, "", s, NoFault)
    /\ UNCHANGED << isBound, boundUser, boundFunction, compartment,
                    executionContext, envModule, wasiModule, moduleInstance,
                    defaultMemory, defaultTable, memNumPages, memNoAccess,
                    tableElems, globalOffsetTableMap, globalOffsetMemoryMap,
                    missingGlobalOffsetEntries, dynamicPathToHandleMap,
                    dynamicModuleMap, lastLoadedDynamicModuleHandle, mmaps,
                    compartmentsCreated, memData, snapshot, baseVars >>

----------------------------------------------------------------------------

\* the names a dynamic load's patch-up may reach before it throws
BeforeChoices(path) ==
    SUBSET {n \in {"g", "h", "bx"} : getInstanceExport(path, n) # NullObj}

\* the operations of the dynamic linker (dlopen, dlsym) on a module
BindStep ==
    \E function \in MainPaths, executeZygote \in BOOLEAN,
       ctorsResult \in {0, 1}, zygoteResult \in {0, 1} :
        BindToFunction("demo", function, executeZygote, ctorsResult, zygoteResult)

DynamicLoadStep ==
    \E path \in Paths, f \in Faults, ctorsResult \in {0, 1} :
        \E before \in BeforeChoices(path) :
            DynamicLoad(path, f, before, ctorsResult)

GetDynamicModuleFunctionStep ==
    \E handle \in 0..3, funcName \in {"g", "puts", "nosuch"},
       f \in {NoFault, [kind |-> "growTable", at |-> 1, res |-> "none"]} :
        GetDynamicModuleFunction(handle, funcName, f)

MmapStep ==
    \/ \E pages \in {0, 2, 8}, f \in MmapFaults : MmapPages(pages, f)
    \/ \E f \in MmapFaults : AllocateThreadStack(f)

ExecuteStep ==
    \E m \in Messages, forceNoop \in BOOLEAN, outcome \in Outcomes,
       f \in {NoFault, [kind |-> "growMemory", at |-> 1, res |-> "outOfQuota"]} :
        Execute(m, forceNoop, outcome, f)

TearDownStep == \E collected \in BOOLEAN : TearDown(collected)

Next ==
    \/ BindStep
    \/ DynamicLoadStep
    \/ GetDynamicModuleFunctionStep
    \/ MmapStep
    \/ ExecuteStep
    \/ TearDownStep

Spec == Init /\ [][Next]_vars

\* the module under bind, dlopen, dlsym and tear-down alone
NextLink ==
    \/ BindStep
    \/ DynamicLoadStep
    \/ TearDownStep

SpecLink == Init /\ [][NextLink]_vars

\* a module that is bound, loads shared objects, hands out function pointers,
\* maps memory and executes, on fewer inputs
RunLoadStep ==
    \E path \in {"/lib/a.so", "/lib/b.so"},
       f \in {NoFault, [kind |-> "mprotect", at |-> 2, res |-> "none"]} :
        DynamicLoad(path, f, {}, 0)

RunGetDynamicModuleFunctionStep ==
    \E handle \in 1..3, funcName \in {"g", "nosuch"} :
        GetDynamicModuleFunction(handle, funcName, NoFault)

RunMmapStep ==
    \/ \E pages \in {0, 2},
          f \in {NoFault, [kind |-> "growMemory", at |-> 1, res |-> "outOfQuota"]} :
            MmapPages(pages, f)
    \/ AllocateThreadStack(NoFault)

RunMessages ==
    {m \in Messages : /\ m.inputdata = ""
                      /\ m.funcptr \in {0, 1}
                      /\ (m.ompdepth = 0) = (m.funcptr = 0)
                      /\ (m.returnvalue = 9) = (m.funcptr = 0)}

RunExecuteStep ==
    \E m \in RunMessages, forceNoop \in BOOLEAN,
       outcome \in {[kind |-> "return", value |-> 0], [kind |-> "trap", value |-> 0]} :
        Execute(m, forceNoop, outcome, NoFault)

NextRun ==
    \/ BindStep
    \/ RunLoadStep
    \/ RunGetDynamicModuleFunctionStep
    \/ RunMmapStep
    \/ RunExecuteStep

SpecRun == Init /\ [][NextRun]_vars

\* a module that is bound, loads shared objects and maps memory against every
\* answer of the backend's growMemory
NextMem ==
    \/ BindStep
    \/ RunLoadStep
    \/ MmapStep

SpecMem == Init /\ [][NextMem]_vars

\* a module that is bound, loads shared objects and is asked for function
\* pointers by handle and name (dlsym)
SymStep ==
    \E handle \in 0..3, funcName \in {"g", "puts", "nosuch"} :
        GetDynamicModuleFunction(handle, funcName, NoFault)

NextSym ==
    \/ BindStep
    \/ RunLoadStep
    \/ SymStep

SpecSym == Init /\ [][NextSym]_vars

----------------------------------------------------------------------------
(* The process-wide base modules: getEnvModule / getWasiModule called from  *)
(* several threads.  Each step is one access to the statics or the mutex.   *)

\* everything that belongs to the two module objects
moduleVars ==
    << isBound, boundUser, boundFunction, compartment, executionContext,
       envModule, wasiModule, moduleInstance, defaultMemory, defaultTable,
       memNumPages, memNoAccess, tableElems, globalOffsetTableMap,
       globalOffsetMemoryMap, missingGlobalOffsetEntries, dynamicPathToHandleMap,
       dynamicModuleMap, lastLoadedDynamicModuleHandle, executingModule, mmaps,
       compartmentsCreated, crashed, memData, other, snapshot, last >>

\* thread t moves to pc
At(t, pc) == [threads EXCEPT ![t].pc = pc]

\* thread t calls getEnvModule() or getWasiModule() and enters
\* instantiateBaseModules
CallGetter(t, which) ==
    /\ threads[t].pc = "idle"
    /\ threads[t].calls < MaxCalls
    /\ threads' = [threads EXCEPT ![t] = [pc |-> "check", call |-> which,
                                          ret |-> "none", calls |-> @.calls + 1]]
    /\ UNCHANGED << baseEnvModule, baseWasiModule, baseModuleMx, baseCompartments,
                    workers, moduleVars >>

\* if (baseEnvModule != nullptr) return; read without the lock
FastPathCheck(t) ==
    /\ threads[t].pc = "check"
    /\ threads' = At(t, IF baseEnvModule # "null" THEN "return" ELSE "lock")
    /\ UNCHANGED << baseEnvModule, baseWasiModule, baseModuleMx, baseCompartments,
                    workers, moduleVars >>

\* faabric::util::UniqueLock lock(baseModuleMx)
AcquireLock(t) ==
    /\ threads[t].pc = "lock"
    /\ baseModuleMx = 0
    /\ baseModuleMx' = t
    /\ threads' = At(t, "recheck")
    /\ UNCHANGED << baseEnvModule, baseWasiModule, baseCompartments, workers, moduleVars >>

\* the double check under the lock; returning releases the lock
DoubleCheck(t) ==
    /\ threads[t].pc = "recheck"
    /\ IF baseEnvModule # "null"
       THEN baseModuleMx' = 0 /\ threads' = At(t, "return")
       ELSE baseModuleMx' = baseModuleMx /\ threads' = At(t, "create")
    /\ UNCHANGED << baseEnvModule, baseWasiModule, baseCompartments, workers, moduleVars >>

\* Runtime::createCompartment("baseModules")
CreateBaseCompartment(t) ==
    /\ threads[t].pc = "create"
    /\ baseCompartments' = baseCompartments + 1
    /\ threads' = At(t, "env")
    /\ UNCHANGED << baseEnvModule, baseWasiModule, baseModuleMx, workers, moduleVars >>

\* baseEnvModule = Intrinsics::instantiateModule(..., env)
InstantiateEnv(t) ==
    /\ threads[t].pc = "env"
    /\ baseEnvModule' = "env"
    /\ threads' = At(t, "wasi")
    /\ UNCHANGED << baseWasiModule, baseModuleMx, baseCompartments, workers, moduleVars >>

\* baseWasiModule = Intrinsics::instantiateModule(..., wasi); the function ends
\* and the lock is released
InstantiateWasi(t) ==
    /\ threads[t].pc = "wasi"
    /\ baseWasiModule' = "wasi"
    /\ baseModuleMx' = 0
    /\ threads' = At(t, "return")
    /\ UNCHANGED << baseEnvModule, baseCompartments, workers, moduleVars >>

\* return baseEnvModule / return baseWasiModule
ReturnBaseModule(t) ==
    /\ threads[t].pc = "return"
    /\ threads' = [threads EXCEPT ![t].pc = "idle",
                                  ![t].ret = IF threads[t].call = "getEnvModule"
                                             THEN baseEnvModule ELSE baseWasiModule]
    /\ UNCHANGED << baseEnvModule, baseWasiModule, baseModuleMx, baseCompartments,
                    workers, moduleVars >>

NextBase ==
    \E t \in Threads :
        \/ \E which \in {"getEnvModule", "getWasiModule"} : CallGetter(t, which)
        \/ FastPathCheck(t)
        \/ AcquireLock(t)
        \/ DoubleCheck(t)
        \/ CreateBaseCompartment(t)
        \/ InstantiateEnv(t)
        \/ InstantiateWasi(t)
        \/ ReturnBaseModule(t)

SpecBase == Init /\ [][NextBase]_vars

\* two modules: each is bound and loads shared objects, and this one is
\* assigned from the other
CloneStep == \E guardsKept \in BOOLEAN : Clone(guardsKept)

OtherBindStep == OtherBindToFunction("demo", "hello")

OtherLoadStep == \E path \in {"/lib/a.so", "/lib/b.so"} : OtherDynamicLoad(path)

CloneBindStep ==
    \E function \in {"hello", "echo"} : BindToFunction("demo", function, FALSE, 0, 0)

CloneLoadStep ==
    \E path \in {"/lib/a.so", "/lib/b.so"} : DynamicLoad(path, NoFault, {}, 0)

NextClone ==
    \/ CloneBindStep
    \/ CloneLoadStep
    \/ OtherBindStep
    \/ OtherLoadStep
    \/ CloneStep

SpecClone == Init /\ [][NextClone]_vars

\* snapshot of the other module and restore into this one, a clone of it
SnapBindStep == OtherBindToFunction("demo", "hello")

SnapLoadStep == OtherDynamicLoad("/lib/b.so")

SnapWriteStep ==
    \/ WriteMemory(0, 1)
    \/ OtherWriteMemory(0, 2)

SnapMmapStep ==
    \/ MmapPages(2, NoFault)
    \/ OtherMmapPages(2)

NextSnap ==
    \/ SnapBindStep
    \/ SnapLoadStep
    \/ SnapWriteStep
    \/ SnapMmapStep
    \/ OtherSnapshot
    \/ CloneStep
    \/ Restore(NoFault)

SpecSnap == Init /\ [][NextSnap]_vars

----------------------------------------------------------------------------
(* Properties.  `last` is the call that led to the state; in an action      *)
(* formula last' is the call of the step, and the unprimed variables are    *)
(* the module before it.                                                    *)

\* C1, as worded: on a bound instance a dynamicLoad of a non-empty path, repeated
\* or not, returns a non-zero handle.
C1_NonEmptyPathGivesHandle ==
    (isBound /\ last.op = "dynamicLoad" /\ last.exc = "none" /\ last.path # "")
        => last.ret # 0

\* C1, amended: a dynamicLoad of a path already in the path-to-handle map
\* returns the mapped handle, which is >= 2, leaves the number of dynamic
\* modules, the table size, the memory page count and the last-loaded cursor
\* unchanged and invokes no guest function; a load that returns a handle >= 2
\* leaves its path mapped to that handle, no load changes or removes an entry
\* of the map, and a load of a directory or of a missing file returns 0.
C1_RepeatedLoadReturnsCachedHandle ==
    [][ last'.op = "dynamicLoad" =>
          /\ last'.path \in DOMAIN dynamicPathToHandleMap =>
                /\ last'.exc = "none"
                /\ last'.ret = dynamicPathToHandleMap[last'.path]
                /\ last'.ret >= 2
                /\ last'.inv = << >>
                /\ Cardinality(DOMAIN dynamicModuleMap')
                      = Cardinality(DOMAIN dynamicModuleMap)
                /\ Len(tableElems') = Len(tableElems)
                /\ memNumPages' = memNumPages
                /\ lastLoadedDynamicModuleHandle' = lastLoadedDynamicModuleHandle
          /\ (last'.exc = "none" /\ last'.ret >= 2) =>
                /\ last'.path \in DOMAIN dynamicPathToHandleMap'
                /\ dynamicPathToHandleMap'[last'.path] = last'.ret
          /\ \A p \in DOMAIN dynamicPathToHandleMap :
                /\ p \in DOMAIN dynamicPathToHandleMap'
                /\ dynamicPathToHandleMap'[p] = dynamicPathToHandleMap[p]
          /\ (last'.path # "" /\ ~Loadable(last'.path)) =>
                (last'.exc = "none" /\ last'.ret = 0)
      ]_vars

\* b.so was loaded first, another path after it, and b.so is loaded again
C1_Witness ==
    /\ last.op = "dynamicLoad" /\ last.path = "/lib/b.so" /\ ~last.fresh
    /\ last.exc = "none" /\ last.ret = 2
    /\ Cardinality(DOMAIN dynamicPathToHandleMap) = 2
    /\ 2 \in DOMAIN dynamicModuleMap /\ dynamicModuleMap[2].ptr = "/lib/b.so"

\* C2: dynamicLoad(path) returns 1 for the empty path, 0 for a directory or a
\* missing file and otherwise, on a first load, a handle >= 2 that no path is
\* mapped to yet; when it returns 0 or 1 the path-to-handle map, the registry,
\* the cursor, the GOT, the table and the memory are unchanged.
C2_ReturnValues ==
    [][ (last'.op = "dynamicLoad" /\ last'.exc = "none") =>
          /\ last'.path = "" => last'.ret = 1
          /\ (last'.path # "" /\ ~Loadable(last'.path)) => last'.ret = 0
          /\ (Loadable(last'.path) /\ last'.path \notin DOMAIN dynamicPathToHandleMap) =>
                /\ last'.ret >= 2
                /\ last'.ret \notin MapValues(dynamicPathToHandleMap)
          /\ last'.ret \in {0, 1} =>
                UNCHANGED << dynamicPathToHandleMap, dynamicModuleMap,
                             lastLoadedDynamicModuleHandle, globalOffsetTableMap,
                             globalOffsetMemoryMap, missingGlobalOffsetEntries,
                             tableElems, memNumPages, memNoAccess >>
      ]_vars

\* C3: in every reachable state the path-to-handle map is injective and
\* every handle in it is >= 2.
C3_HandlesInjective ==
    \A p, q \in DOMAIN dynamicPathToHandleMap :
        /\ dynamicPathToHandleMap[p] >= 2
        /\ p # q => dynamicPathToHandleMap[p] # dynamicPathToHandleMap[q]

\* the names the module at path imports through GOT.func that neither the GOT,
\* nor the main module, nor an instantiated dynamic module, nor it provides
UnresolvedFuncImports(path) ==
    LET imports == getModule(boundFunction, path).imports
    IN  {imports[i].name : i \in {j \in DOMAIN imports : imports[j].mod = "GOT.func"}}
            \ ({n \in {"f", "g", "h", "bx", "mf"} :
                    \/ n \in DOMAIN globalOffsetTableMap
                    \/ getInstanceExport(moduleInstance, n) # NullObj
                    \/ FirstDynamicExport(dynamicModuleMap, n) # NullObj
                    \/ getInstanceExport(path, n) # NullObj})

\* a first dynamicLoad of a file, run with no backend failure on a live module
FirstLoadStep ==
    /\ last'.op = "dynamicLoad" /\ last'.fresh /\ last'.fault = NoFault
    /\ moduleInstance # "null" /\ defaultTable # "null"

C5_PatchUpCorrect ==
    last.op = "dynamicLoad" =>
        \A n \in DOMAIN last.patched :
            /\ getTableElement(tableElems, last.patched[n])
                  = getInstanceExport(last.path, n)
            /\ n \in DOMAIN globalOffsetTableMap
            /\ globalOffsetTableMap[n] = last.patched[n]

\* C6: in every reachable state no name is a key of both missingEntries and
\* functionOffsets, and after a bind or a first load that returned normally
\* missingEntries is empty.
C6_MissingDisjointFromGOT ==
    /\ (DOMAIN missingGlobalOffsetEntries) \cap (DOMAIN globalOffsetTableMap) = {}
    /\ (last.exc = "none" /\ (last.op = "bindToFunction" \/ last.fresh))
          => missingGlobalOffsetEntries = EmptyMap

LayoutOf(m) ==
    << m.memoryBottom, m.memoryTop, m.stackSize, m.stackTop, m.stackPointer,
       m.dataBottom, m.dataTop, m.heapBottom, m.tableBottom, m.tableTop >>

GuardPagesOf(m) ==
    LET below == m.memoryBottom \div WASM_BYTES_PER_PAGE
        above == m.memoryTop \div WASM_BYTES_PER_PAGE
    IN  ((below - GuardPages) .. (below - 1)) \cup (above .. (above + GuardPages - 1))

\* C8: after every step the guard pages below memoryBottom and at memoryTop of
\* every module in the registry are no-access, and dynamicLoad, mmapPages,
\* allocateThreadStack, getDynamicModuleFunction and execute make no
\* no-access page accessible again.
C8_GuardPagesStayNoAccess ==
    [][ /\ \A h \in DOMAIN dynamicModuleMap' :
              /\ GuardPagesOf(dynamicModuleMap'[h]) \subseteq memNoAccess'
              /\ \A pg \in GuardPagesOf(dynamicModuleMap'[h]) : pg >= 0 /\ pg < memNumPages'
        /\ last'.op \in {"dynamicLoad", "mmapPages", "allocateThreadStack",
                         "getDynamicModuleFunction", "execute"}
              => memNoAccess \subseteq memNoAccess'
      ]_vars

\* two modules are in the registry and a direct mmapPages has just mapped pages
\* above both of them
C8_Witness ==
    /\ Cardinality(DOMAIN dynamicModuleMap) = 2
    /\ last.op = "mmapPages" /\ last.exc = "none"
    /\ memNumPages > last.returnvalue0
    /\ \A h \in DOMAIN dynamicModuleMap :
          dynamicModuleMap[h].memoryTop < last.returnvalue0 * WASM_BYTES_PER_PAGE

\* C9: a bindToFunction, with or without zygote, on a module whose bound flag
\* is set raises "Cannot bind a module twice" and changes nothing of the module.
C9_BindTwiceRaises ==
    [][ (last'.op = "bindToFunction" /\ isBound) =>
          /\ last'.exc = "Cannot bind a module twice"
          /\ last'.inv = << >>
          /\ UNCHANGED << memData, isBound, boundUser, boundFunction, compartment,
                          executionContext, envModule, wasiModule, moduleInstance,
                          defaultMemory, defaultTable, memNumPages, memNoAccess,
                          tableElems, globalOffsetTableMap, globalOffsetMemoryMap,
                          missingGlobalOffsetEntries, dynamicPathToHandleMap,
                          dynamicModuleMap, lastLoadedDynamicModuleHandle >>
      ]_vars

\* a module bound to hello with a shared object loaded is bound again, to another
\* function and with the zygote
C9_Witness ==
    /\ last.op = "bindToFunction" /\ last.exc = "Cannot bind a module twice"
    /\ last.flag /\ last.msg.function # boundFunction
    /\ moduleInstance = "hello"
    /\ dynamicModuleMap # EmptyMap

\* C10: an execute on a module that is not bound, or bound to another user or
\* function than the message's, raises without invoking a guest function,
\* without changing the message's return value and without changing the
\* executing-module pointer.
C10_ExecuteRejectsUnbound ==
    [][ (/\ last'.op = "execute"
         /\ \/ ~isBound
            \/ last'.msg.user # boundUser
            \/ last'.msg.function # boundFunction) =>
          /\ last'.exc = IF isBound
                         THEN "Cannot execute function on module bound to another"
                         ELSE "WasmModule must be bound before executing function"
          /\ last'.inv = << >>
          /\ last'.msg.returnvalue = last'.returnvalue0
          /\ executingModule' = executingModule
      ]_vars

\* a bound module is handed another function's message that carries a return value
C10_Witness ==
    /\ last.op = "execute"
    /\ last.exc = "Cannot execute function on module bound to another"
    /\ isBound /\ last.msg.function # boundFunction
    /\ last.returnvalue0 = 9 /\ last.msg.returnvalue = 9
    /\ executingModule = "null"

----------------------------------------------------------------------------
\* an execute that passed the bound checks and invoked guest code
ExecuteInvoked ==
    /\ last.op = "execute"
    /\ last.exc = "none"
    /\ ~last.flag
    /\ last.outcome.kind # "none"

\* C11: on every dispatch path (main entry, funcptr entry, ompdepth > 0) the guest
\* outcome maps as: trap => success = false and msg.returnvalue = 1;
\* exit(code) => msg.returnvalue = code and success <=> code = 0;
\* normal return of v => success = true and msg.returnvalue = v.
C11_OutcomeMapping ==
    ExecuteInvoked =>
        CASE last.outcome.kind = "trap" ->
                 last.ret = 0 /\ last.msg.returnvalue = 1
          [] last.outcome.kind = "exit" ->
                 /\ last.msg.returnvalue = last.outcome.value
                 /\ (last.ret = 1) <=> (last.outcome.value = 0)
          [] OTHER ->
                 last.ret = 1 /\ last.msg.returnvalue = last.outcome.value

----------------------------------------------------------------------------
\* the kind of a memory error, by the message mmapPages raises it with
MemoryErrorKind(exc) ==
    CASE exc = "Unable to commit virtual pages" -> "OutOfMemory"
      [] exc = "Run out of memory to map" -> "OutOfMaxSize"
      [] exc = "Mmap exceeding max" -> "OutOfMaxSize"
      [] exc = "Memory resource quota exceeded" -> "OutOfQuota"
      [] exc = "Unknown memory mapping error" -> "Unknown"
      [] OTHER -> "none"

\* a step that is a direct mmapPages(k) on a module that has a default memory
MmapPagesCall == last'.op = "mmapPages" /\ defaultMemory # "null"

\* mmapPages(k) grew the memory by exactly k pages and returned the old top
MmapGrewExactly ==
    /\ last'.exc = "none"
    /\ memNumPages' = memNumPages + last'.handle
    /\ last'.ret = memNumPages * WASM_BYTES_PER_PAGE

\* mmapPages(k) raised one of the four memory kinds and left the page count alone
MmapRaisedMemoryKind ==
    /\ MemoryErrorKind(last'.exc) # "none"
    /\ memNumPages' = memNumPages

\* C12, as worded: for every k, mmapPages(k) either grows the memory by exactly k
\* pages and returns old page count x 65536, or raises one of the four memory
\* error kinds with the page count unchanged; nothing else.
C12_AllOrNothingFourKinds ==
    [][ MmapPagesCall => (MmapGrewExactly \/ MmapRaisedMemoryKind) ]_vars

\* C12, amended: for k > 0 mmapPages(k) either grows the memory by exactly k pages
\* and returns old page count x 65536, or raises one of the four memory error
\* kinds with the page count unchanged; mmapPages(0) raises "Requesting mapping
\* of zero pages", which is none of the four kinds, with the page count unchanged.
C12_AllOrNothing ==
    [][ MmapPagesCall =>
          IF last'.handle = 0
          THEN /\ last'.exc = "Requesting mapping of zero pages"
               /\ memNumPages' = memNumPages
          ELSE MmapGrewExactly \/ MmapRaisedMemoryKind ]_vars

\* a direct mmapPages(2) has failed on the backend with the quota exceeded, on a
\* module that had loaded a shared object
C12_Witness ==
    /\ last.op = "mmapPages"
    /\ last.handle = 2
    /\ MemoryErrorKind(last.exc) = "OutOfQuota"
    /\ dynamicModuleMap # EmptyMap
    /\ memNumPages = last.returnvalue0

----------------------------------------------------------------------------
----------------------------------------------------------------------------
\* what getDynamicModuleFunction(handle, name) looks up in the module as it is:
\* the export of env, main or WASI for handle 1, of the registry's instance else
SymLookup(handle, funcName) ==
    IF handle = MAIN_MODULE_DYNLINK_HANDLE
    THEN IF getInstanceExport(envModule, funcName) # NullObj
         THEN getInstanceExport(envModule, funcName)
         ELSE IF getInstanceExport(moduleInstance, funcName) # NullObj
              THEN getInstanceExport(moduleInstance, funcName)
              ELSE getInstanceExport(wasiModule, funcName)
    ELSE IF handle \in DOMAIN dynamicModuleMap
         THEN getInstanceExport(dynamicModuleMap[handle].ptr, funcName)
         ELSE NullObj

\* a step that is a getDynamicModuleFunction on a bound module whose handles
\* are live
SymCall ==
    /\ last'.op = "getDynamicModuleFunction"
    /\ isBound
    /\ moduleInstance # "null"
    /\ \A h \in DOMAIN dynamicModuleMap : dynamicModuleMap[h].ptr # "null"

----------------------------------------------------------------------------
\* a step that is a clone from a bound source whose handles are live
CloneOfBound == last'.op = "clone" /\ other.isBound /\ ~cloneCrashes(other)

\* C16: after clone(src) with src bound, into a target that was unbound or bound
\* to something else, the target's functionOffsets, dataOffsets, missingEntries,
\* path-to-handle map, last-loaded cursor and the layout record of every dynamic
\* module equal src's, with nothing left over from the target's previous
\* binding, and src is unchanged.
C16_CloneCopiesLinkState ==
    [][ CloneOfBound =>
          /\ globalOffsetTableMap' = other.got
          /\ globalOffsetMemoryMap' = other.gom
          /\ missingGlobalOffsetEntries' = other.miss
          /\ dynamicPathToHandleMap' = other.p2h
          /\ lastLoadedDynamicModuleHandle' = other.cursor
          /\ DOMAIN dynamicModuleMap' = DOMAIN other.dmm
          /\ \A h \in DOMAIN other.dmm :
                LayoutOf(dynamicModuleMap'[h]) = LayoutOf(other.dmm[h])
          /\ isBound' /\ boundFunction' = other.boundFunction
          /\ other' = other
      ]_vars

\* a module bound to echo with two registry records was assigned from a module
\* bound to hello that has one record and a pending missing entry
C16_Witness ==
    /\ last.op = "clone"
    /\ last.name = "echo"
    /\ last.handle = 2
    /\ other.boundFunction = "hello"
    /\ other.miss # EmptyMap
    /\ Cardinality(DOMAIN other.dmm) = 1
    /\ DOMAIN dynamicModuleMap = DOMAIN other.dmm
    /\ boundFunction = "hello"
    /\ ~crashed

----------------------------------------------------------------------------
----------------------------------------------------------------------------
\* C18: the bound flag is monotone: bindToFunction, execute, dynamicLoad,
\* getDynamicModuleFunction, snapshot, restore and clone never change it from
\* true to false, and tearDown is the operation that resets it.
C18_BoundMonotone ==
    [][ /\ (isBound /\ ~isBound') => last'.op = "tearDown"
        /\ (last'.op = "tearDown") => ~isBound'
      ]_vars

----------------------------------------------------------------------------
\* the memory of the module agrees with the snapshot on every page of it
MemoryEqualsSnapshot(data, snap) ==
    /\ {p \in DOMAIN data : p < snap.numPages} = DOMAIN snap.data
    /\ \A p \in DOMAIN snap.data : data[p] = snap.data[p]

\* C13: for a bound instance S, snapshot(S) and then restore of that snapshot on
\* a clone of S gives the clone the snapshot's page count and a linear memory
\* identical to S's at snapshot time, whatever was written to the clone before.
C13_SnapshotRoundTrip ==
    [][ /\ (last'.op = "other.snapshot" /\ other.mem # "null") =>
              /\ ~crashed'
              /\ snapshot'.numPages = other.pages
              /\ snapshot'.data = other.memData
        /\ (last'.op = "restore" /\ defaultMemory # "null"
              /\ snapshot.numPages >= memNumPages) =>
              /\ last'.exc = "none"
              /\ memNumPages' = snapshot.numPages
              /\ MemoryEqualsSnapshot(memData', snapshot)
      ]_vars

\* a step that is a restore on a module that has a memory
RestoreCall == last'.op = "restore" /\ defaultMemory # "null"

\* C14: restore only grows: a snapshot with more pages than the module grows the
\* memory by exactly the difference, one with as many pages grows nothing, and
\* one with fewer pages is not permitted: the difference, a size_t truncated to
\* 32 bits, is refused by mmapPages, and the memory neither grows nor shrinks.
C14_RestoreOnlyGrows ==
    [][ RestoreCall =>
          IF snapshot.numPages >= memNumPages
          THEN /\ last'.exc = "none"
               /\ memNumPages' = memNumPages + (snapshot.numPages - memNumPages)
               /\ (snapshot.numPages = memNumPages) => tableElems' = tableElems
          ELSE /\ MemoryErrorKind(last'.exc) = "OutOfMaxSize"
               /\ memNumPages' = memNumPages
               /\ memData' = memData
      ]_vars

\* a restore of a snapshot that has fewer pages than the module was refused
C14_Witness ==
    /\ last.op = "restore"
    /\ last.handle < last.returnvalue0
    /\ last.handle > 0
    /\ last.exc = "Mmap exceeding max"
    /\ memNumPages = last.returnvalue0

\* a restore of a snapshot that has more pages than the module grew the memory
C14_WitnessGrow ==
    /\ last.op = "restore"
    /\ last.handle > last.returnvalue0
    /\ last.returnvalue0 > 0
    /\ last.exc = "none"
    /\ memNumPages = last.handle

----------------------------------------------------------------------------
\* C20: under any interleaving of concurrent getEnvModule and getWasiModule
\* calls the base env and WASI instances are created exactly once, every call
\* returns a non-null instance, and no caller gets past the check of the env
\* instance while the WASI instance is still unset.
C20_BaseModulesInitialisedOnce ==
    /\ baseCompartments <= 1
    /\ \A t \in Threads :
          /\ threads[t].ret # "null"
          /\ threads[t].pc = "return" => baseWasiModule # "null"

----------------------------------------------------------------------------
(* Layout and ordering of a first-time dynamic load *)

\* the step is a first load of last'.path whose registry record was written:
\* the handle of the path is new in the registry
RecordWritten ==
    /\ last'.op = "dynamicLoad" /\ last'.fresh
    /\ last'.path \in DOMAIN dynamicPathToHandleMap'
    /\ dynamicPathToHandleMap'[last'.path] \in DOMAIN dynamicModuleMap'
    /\ dynamicPathToHandleMap'[last'.path] \notin DOMAIN dynamicModuleMap

\* C26: the layout record of a newly loaded dynamic module is determined by
\* the offset mmapPages returned (the old top of memory after the lower guard
\* region), the module's data size and the table size before and after the
\* growth: memoryTop = memoryBottom + DYNAMIC_MODULE_MEMORY_PAGES x 65536,
\* stackTop = memoryBottom + DYNAMIC_MODULE_STACK_SIZE, stackPointer =
\* stackTop - 1, dataBottom = stackTop, dataTop = dataBottom + dataSize,
\* heapBottom = dataTop, tableBottom = the table size before, tableTop = the
\* table size after the growth; and a record whose instance is set is not
\* changed by any later step that keeps it in the registry.
C26_LayoutIsFunctionOfInputs ==
    [][ /\ RecordWritten =>
              LET m == dynamicModuleMap'[dynamicPathToHandleMap'[last'.path]]
                  mod == getModule(boundFunction, last'.path)
              IN  /\ m.path = last'.path
                  /\ m.memoryBottom = (memNumPages + GuardPages) * WASM_BYTES_PER_PAGE
                  /\ m.memoryTop = m.memoryBottom
                                     + DYNAMIC_MODULE_MEMORY_PAGES * WASM_BYTES_PER_PAGE
                  /\ m.stackTop = m.memoryBottom + DYNAMIC_MODULE_STACK_SIZE
                  /\ m.stackPointer = m.stackTop - 1
                  /\ m.dataBottom = m.stackTop
                  /\ m.dataTop = m.dataBottom + mod.dataSize
                  /\ m.heapBottom = m.dataTop
                  /\ m.tableBottom = Len(tableElems)
                  /\ m.tableTop = Len(tableElems) + mod.tableSize
        /\ \A h \in (DOMAIN dynamicModuleMap) \cap (DOMAIN dynamicModuleMap') :
              dynamicModuleMap[h].ptr # "null" =>
                  dynamicModuleMap'[h] = dynamicModuleMap[h]
      ]_vars

\* f.so was loaded after b.so: its table range starts where b.so's ends and
\* its memory lies above b.so's upper guard region
C26_Witness ==
    /\ last.op = "dynamicLoad" /\ last.fresh /\ last.exc = "none"
    /\ last.path = "/lib/f.so" /\ last.ret = 3
    /\ dynamicModuleMap[2].ptr = "/lib/b.so" /\ dynamicModuleMap[3].ptr = "/lib/f.so"
    /\ dynamicModuleMap[3].tableBottom = dynamicModuleMap[2].tableTop
    /\ dynamicModuleMap[3].memoryBottom
          = dynamicModuleMap[2].memoryTop + 2 * GuardPages * WASM_BYTES_PER_PAGE

\* the index of the first element of the segment that carries the name n
ElemIndex(mod, n) ==
    CHOOSE i \in 1..Len(mod.elems) :
        mod.elems[i] = n /\ \A j \in 1..Len(mod.elems) : mod.elems[j] = n => i <= j

\* C22: a first-time dynamicLoad of a file sets the path-to-handle entry and
\* the last-loaded cursor to the new handle h before it creates the instance
\* (they are set even when the load raises); once h's record is written it
\* is what addModuleToGOT and resolve see: the load never raises for a
\* missing last-loaded module, every __memory_base, __table_base and
\* __stack_pointer global it creates holds h's own dataBottom, tableBottom
\* and stackPointer, and the exported table elements it adds to
\* functionOffsets are counted from h's tableBottom.
C22_RecordBeforeResolve ==
    [][ /\ (last'.op = "dynamicLoad" /\ last'.fresh) =>
              /\ last'.path \in DOMAIN dynamicPathToHandleMap'
              /\ dynamicPathToHandleMap'[last'.path] = 2 + Cardinality(DOMAIN dynamicModuleMap)
              /\ lastLoadedDynamicModuleHandle' = dynamicPathToHandleMap'[last'.path]
        /\ RecordWritten =>
              LET m == dynamicModuleMap'[dynamicPathToHandleMap'[last'.path]]
                  mod == getModule(boundFunction, last'.path)
              IN  /\ last'.exc \notin {"No dynamic modules loaded",
                                       "Cannot find entry for last loaded dynamic module"}
                  /\ \A i \in DOMAIN last'.globs :
                        LET g == last'.globs[i]
                        IN  g.from = "env" =>
                              /\ g.name = "__memory_base" => g.value = m.dataBottom
                              /\ g.name = "__table_base" => g.value = m.tableBottom
                              /\ g.name = "__stack_pointer" => g.value = m.stackPointer
                  /\ \A n \in (DOMAIN globalOffsetTableMap') \ (DOMAIN globalOffsetTableMap) :
                        (\E i \in 1..Len(mod.elems) : mod.elems[i] = n) =>
                            globalOffsetTableMap'[n] = m.tableBottom + ElemIndex(mod, n) - 1
      ]_vars

\* a second module was loaded with handle 3: the three base globals of its
\* instantiation hold its own layout, which differs from that of handle 2
C22_Witness ==
    /\ last.op = "dynamicLoad" /\ last.fresh /\ last.exc = "none" /\ last.ret = 3
    /\ lastLoadedDynamicModuleHandle = 3
    /\ 2 \in DOMAIN dynamicModuleMap /\ dynamicModuleMap[2].ptr # "null"
    /\ dynamicModuleMap[3].dataBottom # dynamicModuleMap[2].dataBottom
    /\ dynamicModuleMap[3].tableBottom # dynamicModuleMap[2].tableBottom
    /\ \E i, j, k \in DOMAIN last.globs :
          /\ last.globs[i].name = "__memory_base"
          /\ last.globs[i].value = dynamicModuleMap[3].dataBottom
          /\ last.globs[j].name = "__table_base"
          /\ last.globs[j].value = dynamicModuleMap[3].tableBottom
          /\ last.globs[k].name = "__stack_pointer"
          /\ last.globs[k].value = dynamicModuleMap[3].stackPointer

----------------------------------------------------------------------------
(* The global offset table *)

\* the step ran addModuleToGOT for the module it names: a bind that got past
\* the stack check, or a first load whose registry record was written
AddedToGOT ==
    \/ /\ last'.op = "bindToFunction"
       /\ last'.exc \notin {"Cannot bind a module twice", "Found immutable stack top"}
    \/ RecordWritten

\* the module of the step and the offset its element segment is counted from
ModuleOfStep ==
    IF last'.op = "bindToFunction" THEN getModule(last'.msg.function, "")
    ELSE getModule(boundFunction, last'.path)

OffsetOfStep ==
    IF last'.op = "bindToFunction" THEN ModuleOfStep.elemBase
    ELSE dynamicModuleMap'[dynamicPathToHandleMap'[last'.path]].tableBottom

\* C24: after addModuleToGOT(mod, isMain) every element of mod's segment whose
\* function name mod exports has functionOffsets[name] = offset + i, with
\* offset the segment's base offset for the main module and the last-loaded
\* module's tableBottom for a dynamic one, also when the name was in
\* functionOffsets before; names mod does not export are not added.
C24_GOTHoldsOffsets ==
    [][ AddedToGOT =>
          \A i \in 1..Len(ModuleOfStep.elems) :
              LET n == ModuleOfStep.elems[i]
              IN  IF \E e \in ModuleOfStep.exports : e.name = n
                  THEN /\ n \in DOMAIN globalOffsetTableMap'
                       /\ globalOffsetTableMap'[n] = OffsetOfStep + (i - 1)
                  ELSE n \in DOMAIN globalOffsetTableMap' => n \in DOMAIN globalOffsetTableMap
      ]_vars

\* the globals the load of the step created for its GOT.func imports
GOTFuncGlobals == {i \in DOMAIN last'.globs : last'.globs[i].from = "GOT.func"}

\* functionOffsets as the resolve calls of the step's load found it: the map
\* before the load with the load's own exported table elements inserted
GOTAtLink ==
    GOTWithElems(globalOffsetTableMap, ModuleOfStep, OffsetOfStep)

\* the export of n the resolver finds in the main instance or, in handle
\* order, in the dynamic instances that were instantiated before the load
ExportedBefore(n) ==
    IF getInstanceExport(moduleInstance, n) # NullObj
    THEN getInstanceExport(moduleInstance, n)
    ELSE FirstDynamicExport(dynamicModuleMap, n)

\* what C23 says of the global a load created for its GOT.func import i
GOTFuncResolved(i) ==
    LET n == last'.globs[i].name
        v == last'.globs[i].value
    IN  IF n \in DOMAIN GOTAtLink
        THEN v = GOTAtLink[n] /\ globalOffsetTableMap'[n] = v
        ELSE /\ v >= OffsetOfStep + ModuleOfStep.tableSize
             /\ v < Len(tableElems')
             /\ IF ExportedBefore(n) # NullObj
                THEN /\ n \in DOMAIN globalOffsetTableMap'
                     /\ globalOffsetTableMap'[n] = v
                     /\ tableElems'[v + 1] = ExportedBefore(n)
                ELSE \/ /\ n \in DOMAIN missingGlobalOffsetEntries'
                        /\ missingGlobalOffsetEntries'[n] = v
                     \/ /\ n \in DOMAIN last'.patched
                        /\ last'.patched[n] = v

\* C23: a GOT.func import n resolved during a dynamic load gets a global
\* that holds functionOffsets[n] when n is in functionOffsets, with the table
\* unchanged; otherwise the table grows by exactly one slot, the global holds
\* the index of that slot, and n is recorded with that index in exactly one of
\* functionOffsets (the main instance or, in handle order, an instantiated
\* dynamic instance exports n, and the export is in the slot) or
\* missingEntries (nothing exports n; the entry stays until a patch-up of the
\* same load moves it into functionOffsets).
C23_GOTFuncResolution ==
    [][ RecordWritten =>
          /\ \A i \in GOTFuncGlobals : GOTFuncResolved(i)
          /\ Cardinality(GOTFuncGlobals)
                = Cardinality({k \in DOMAIN ModuleOfStep.imports :
                                  ModuleOfStep.imports[k].mod = "GOT.func"})
             => Len(tableElems')
                  = OffsetOfStep + ModuleOfStep.tableSize
                      + Cardinality({i \in GOTFuncGlobals :
                                        last'.globs[i].name \notin DOMAIN GOTAtLink})
      ]_vars

\* C23 holds on the loads that start with missingEntries empty
C23_OnCleanMissingEntries ==
    [][ (RecordWritten /\ missingGlobalOffsetEntries = EmptyMap) =>
          /\ \A i \in GOTFuncGlobals : GOTFuncResolved(i)
          /\ Cardinality(GOTFuncGlobals)
                = Cardinality({k \in DOMAIN ModuleOfStep.imports :
                                  ModuleOfStep.imports[k].mod = "GOT.func"})
             => Len(tableElems')
                  = OffsetOfStep + ModuleOfStep.tableSize
                      + Cardinality({i \in GOTFuncGlobals :
                                        last'.globs[i].name \notin DOMAIN GOTAtLink})
      ]_vars

\* the globals the load of the step created for its GOT.mem imports
GOTMemGlobals == {i \in DOMAIN last'.globs : last'.globs[i].from = "GOT.mem"}

\* dataOffsets as the resolve calls of the step's load found it
GOMAtLink ==
    GOMWithGlobals(globalOffsetMemoryMap, ModuleOfStep,
                   dynamicModuleMap'[dynamicPathToHandleMap'[last'.path]].dataBottom)

\* the i32.const initializer of the exported global n of IR module mod
InitializerOf(mod, n) == (CHOOSE g \in mod.globals : g.name = n).value

\* mod exports the global n with an i32.const initializer
ExportsData(mod, n) ==
    Exp(n, "global") \in mod.exports /\ \E g \in mod.globals : g.name = n

\* the initializer of n plus 0 when the main module exports n, plus the
\* dataBottom of the registered dynamic module that exports it otherwise
DataOffsetOf(n) ==
    IF ExportsData(getModule(boundFunction, ""), n)
    THEN InitializerOf(getModule(boundFunction, ""), n)
    ELSE LET h == CHOOSE k \in DOMAIN dynamicModuleMap' :
                     ExportsData(getModule(boundFunction, dynamicModuleMap'[k].path), n)
         IN  InitializerOf(getModule(boundFunction, dynamicModuleMap'[h].path), n)
               + dynamicModuleMap'[h].dataBottom

----------------------------------------------------------------------------
(* bindToFunction on main modules of every build *)

\* modules bound to the main modules of the catalogue, with and without the
\* zygote, against every result of the two start-up functions
BindVariantStep ==
    \E function \in {"hello"} \cup MainVariants, executeZygote \in BOOLEAN,
       ctorsResult \in {0, 1}, zygoteResult \in {0, 1} :
        BindToFunction("demo", function, executeZygote, ctorsResult, zygoteResult)

NextBind ==
    \/ BindVariantStep
    \/ TearDownStep

SpecBind == Init /\ [][NextBind]_vars

\* the step is a bind that created the main instance
BindRan ==
    /\ last'.op = "bindToFunction"
    /\ last'.exc # "Cannot bind a module twice"
    /\ moduleInstance' # "null"

\* C27: a bind that creates the main instance invokes its __wasm_call_ctors
\* exactly once and first; when that returns 0 the zygote function is invoked
\* exactly once, after it, if and only if executeZygote is true and the
\* module exports it (never under bindToFunctionNoZygote), and nothing else
\* is invoked; a non-zero return of __wasm_call_ctors makes the bind raise
\* before the zygote, a non-zero return of the zygote makes it raise.
C27_CtorsThenZygote ==
    [][ BindRan =>
          LET fn == last'.msg.function
              ctors == << fn, WASM_CTORS_FUNC_NAME >>
              zygote == << fn, ZYGOTE_FUNC_NAME >>
              inv == last'.inv
              exported == getInstanceExport(fn, ZYGOTE_FUNC_NAME) # NullObj
          IN  /\ Len(inv) \in {1, 2}
              /\ inv[1] = ctors
              /\ Len(inv) = 2 => inv[2] = zygote
              /\ last'.args[1] # 0 =>
                    (last'.exc = "__wasm_call_ctors failed" /\ Len(inv) = 1)
              /\ last'.args[1] = 0 => ((Len(inv) = 2) <=> (last'.flag /\ exported))
              /\ last'.args[2] # 0 => last'.exc = "Zygote failed"
              /\ ~last'.flag => Len(inv) = 1
      ]_vars

\* a bind with the zygote ran both functions, in that order, and returned
C27_Witness ==
    /\ last.op = "bindToFunction" /\ last.exc = "none" /\ last.flag
    /\ last.msg.function = "hello"
    /\ last.inv = << << "hello", WASM_CTORS_FUNC_NAME >>, << "hello", ZYGOTE_FUNC_NAME >> >>
    /\ isBound /\ moduleInstance = "hello"

\* the step is a bind that reached the check of __heap_base against __data_end
LayoutChecked ==
    BindRan /\ last'.exc \in {"none", "Wasm memory layout not as expected"}

\* C28: a bind raises the layout error whenever the main instance exports
\* both __heap_base and __data_end and their values differ, whatever the two
\* I32 values are (zero and negative values included), and does not raise it
\* when either of them is not exported.
C28_LayoutErrorOnMismatch ==
    [][ LayoutChecked =>
          LET mod == getModule(last'.msg.function, "")
              both == ExportsData(mod, "__heap_base") /\ ExportsData(mod, "__data_end")
          IN  /\ (both /\ InitializerOf(mod, "__heap_base") # InitializerOf(mod, "__data_end"))
                    => last'.exc = "Wasm memory layout not as expected"
              /\ ~both => last'.exc = "none"
      ]_vars

\* C28 for positive values only: the bind raises the layout error when both
\* are exported, positive and different, and not when either is not exported
C28_OnPositiveValues ==
    [][ LayoutChecked =>
          LET mod == getModule(last'.msg.function, "")
              both == ExportsData(mod, "__heap_base") /\ ExportsData(mod, "__data_end")
          IN  /\ (/\ both
                  /\ InitializerOf(mod, "__heap_base") > 0
                  /\ InitializerOf(mod, "__data_end") > 0
                  /\ InitializerOf(mod, "__heap_base") # InitializerOf(mod, "__data_end"))
                    => last'.exc = "Wasm memory layout not as expected"
              /\ ~both => last'.exc = "none"
      ]_vars

----------------------------------------------------------------------------
(* execute on a bound module: traps, exits and OpenMP threads *)

\* the messages for the two functions the modules of SpecExec are bound to
ExecMessages ==
    { m \in [ user : {"demo"}, function : {"hello", "smallstack"}, funcptr : {0, 1},
              inputdata : {""}, ompdepth : {0, 1}, returnvalue : {0} ] :
        m.ompdepth = 1 => m.funcptr = 1 }

ExecBindStep ==
    \E function \in {"hello", "smallstack"} :
        BindToFunction("demo", function, FALSE, 0, 0)

ExecLoadStep == DynamicLoad("/lib/b.so", NoFault, {}, 0)

ExecExecuteStep ==
    \E m \in ExecMessages, forceNoop \in BOOLEAN, outcome \in Outcomes,
       f \in {NoFault, [kind |-> "growMemory", at |-> 1, res |-> "outOfQuota"]} :
        Execute(m, forceNoop, outcome, f)

NextExec ==
    \/ ExecBindStep
    \/ ExecLoadStep
    \/ ExecExecuteStep

SpecExec == Init /\ [][NextExec]_vars

\* the guest code the execute of the record ran ended in a trap or exit(code # 0)
GuestFailed(call) ==
    /\ call.op = "execute"
    /\ \/ call.outcome.kind = "trap"
       \/ call.outcome.kind = "exit" /\ call.outcome.value # 0

\* an execute of the message the module is bound to is accepted and reaches
\* the entry function: the call on the module as it stands
ExecuteAccepted ==
    LET m == [NoMsg EXCEPT !.user = boundUser, !.function = boundFunction]
        s == execute(Self, m, FALSE, [kind |-> "return", value |-> 0], NoFault)
    IN  s.exc = "none" /\ s.inv = << << moduleInstance, ENTRY_FUNC_NAME >> >>

\* C29: an execute whose guest code traps or exits with a non-zero code does
\* not tear the instance down: the bound flag, boundUser, boundFunction,
\* functionOffsets, dataOffsets, missingEntries, the path-to-handle map, the
\* registry and the backend handles are what they were before it, and an
\* execute of a matching message that follows is accepted and runs.
C29_FailedExecuteKeepsInstance ==
    [][ GuestFailed(last') =>
          /\ UNCHANGED << isBound, boundUser, boundFunction, globalOffsetTableMap,
                          globalOffsetMemoryMap, missingGlobalOffsetEntries,
                          dynamicPathToHandleMap, dynamicModuleMap,
                          lastLoadedDynamicModuleHandle, moduleInstance, envModule,
                          wasiModule, defaultMemory, defaultTable, compartment,
                          executionContext >>
          /\ ExecuteAccepted'
      ]_vars

\* the entry function of a module that has loaded b.so trapped: the call
\* reported failure with return value 1 and the module still executes
C29_Witness ==
    /\ GuestFailed(last) /\ last.outcome.kind = "trap"
    /\ last.msg.ompdepth = 0 /\ last.ret = 0 /\ last.msg.returnvalue = 1
    /\ isBound /\ 2 \in DOMAIN dynamicModuleMap /\ dynamicModuleMap[2].ptr = "/lib/b.so"
    /\ ExecuteAccepted

\* the step is an execute of an OpenMP message whose thread stack was allocated:
\* allocateThreadStack returned and the call went on into executeThreadLocally
ThreadStackAllocated ==
    /\ last'.op = "execute" /\ last'.msg.ompdepth > 0
    /\ memNumPages' = memNumPages + getNumberOfWasmPagesForBytes(THREAD_STACK_SIZE)

\* the offset allocateThreadStack returned in the step: the old top of memory
stackBase == memNumPages * WASM_BYTES_PER_PAGE

\* the writes to mutableGlobals[0] of a thread context made by the call
StackGlobalWrites(call) ==
    SelectSeq(call.globs, LAMBDA g : g.from = "threadContext" /\ g.name = "mutableGlobals[0]")

\* C30: executeThreadLocally sets the first mutable global of the new thread
\* context to stackBase + THREAD_STACK_SIZE - 1, stackBase being the offset
\* allocateThreadStack returned for the thread, and then invokes the thread
\* function; when the global is not STACK_SIZE before the overwrite it raises
\* "Unexpected mutable global format", writes nothing and invokes nothing.
C30_ThreadStackPointer ==
    [][ ThreadStackAllocated =>
          IF getModule(boundFunction, "").stackInit = STACK_SIZE
          THEN /\ last'.exc = "none"
               /\ Len(StackGlobalWrites(last')) = 1
               /\ StackGlobalWrites(last')[1].value = stackBase + THREAD_STACK_SIZE - 1
               /\ Len(last'.inv) = 1
               /\ last'.inv[1] = << getTableElement(tableElems, last'.msg.funcptr).inst,
                                    getTableElement(tableElems, last'.msg.funcptr).name >>
          ELSE /\ last'.exc = "Unexpected mutable global format"
               /\ StackGlobalWrites(last') = << >>
               /\ last'.inv = << >>
      ]_vars

\* an OpenMP execute on the four-page module put the stack pointer of its thread
\* at the top of the stack region allocated above the old memory
C30_Witness ==
    /\ last.op = "execute" /\ last.msg.ompdepth > 0 /\ last.exc = "none"
    /\ Len(StackGlobalWrites(last)) = 1
    /\ StackGlobalWrites(last)[1].value = 4 * WASM_BYTES_PER_PAGE + THREAD_STACK_SIZE - 1
    /\ Len(last.inv) = 1

\* an OpenMP execute on a module whose stack global is not STACK_SIZE raised
\* after the thread stack was allocated
C30_RaiseWitness ==
    /\ last.op = "execute" /\ last.msg.ompdepth > 0
    /\ last.exc = "Unexpected mutable global format"
    /\ boundFunction = "smallstack" /\ last.inv = << >>
    /\ memNumPages > 4

----------------------------------------------------------------------------
(* Several modules executing in parallel, one call per thread at a time.    *)
(* Each step is one access of a thread to its thread_local executingModule. *)

\* an executing-module pointer that is one static shared by all threads
setExecutingModuleShared(ws, t, mod) ==
    [u \in DOMAIN ws |-> [ws[u] EXCEPT !.executingModule = mod]]

\* setExecutingModule(other) called on thread t: executingModule is thread_local
setExecutingModule(ws, t, mod) ==
    [ws EXCEPT ![t].executingModule = mod]

\* getExecutingWAVMModule() called on thread t
getExecutingWAVMModule(ws, t) == ws[t].executingModule

\* everything but the threads' executing-module state
nonWorkerVars ==
    << moduleVars, baseEnvModule, baseWasiModule, baseModuleMx, baseCompartments, threads >>

\* thread t calls mod->execute(msg) (plain or OpenMP message), or
\* mod->executeFunction(...) as bind does for the constructors and the zygote
WorkerCall(t, mod, entry) ==
    /\ workers[t].pc = "idle"
    /\ workers[t].calls < MaxExecutes
    /\ workers' = [workers EXCEPT ![t] = [@ EXCEPT !.pc = IF entry = "executeFunction"
                                                          THEN "function" ELSE "execute",
                                                   !.this = mod, !.entry = entry,
                                                   !.seen = "none", !.calls = @ + 1]]
    /\ UNCHANGED nonWorkerVars

\* execute: setExecutingModule(this) after the bound checks; an OpenMP message
\* goes on to executeThreadLocally, a forced noop returns, any other message
\* goes on to executeFunction
ExecuteSetsModule(t, forceNoop) ==
    /\ workers[t].pc = "execute"
    /\ forceNoop => workers[t].entry = "execute"
    /\ workers' = [setExecutingModule(workers, t, workers[t].this) EXCEPT
                      ![t].pc = IF workers[t].entry = "executeOMP" THEN "thread"
                                ELSE IF forceNoop THEN "idle" ELSE "function"]
    /\ UNCHANGED nonWorkerVars

\* executeFunction / executeThreadLocally: setExecutingModule(this), then
\* Runtime::invokeFunction enters the guest code
EnterGuest(t) ==
    /\ workers[t].pc \in {"function", "thread"}
    /\ workers' = [setExecutingModule(workers, t, workers[t].this) EXCEPT ![t].pc = "guest"]
    /\ UNCHANGED nonWorkerVars

\* the guest code calls a host function, which asks for the executing module
HostCall(t) ==
    /\ workers[t].pc = "guest"
    /\ workers' = [workers EXCEPT ![t].seen = getExecutingWAVMModule(workers, t)]
    /\ UNCHANGED nonWorkerVars

\* the guest function returns, traps or exits; the pointer is left as it is
LeaveGuest(t) ==
    /\ workers[t].pc = "guest"
    /\ workers' = [workers EXCEPT ![t].pc = "idle"]
    /\ UNCHANGED nonWorkerVars

NextWorkers ==
    \E t \in Threads :
        \/ \E mod \in ModuleInstances, entry \in {"execute", "executeOMP", "executeFunction"} :
               WorkerCall(t, mod, entry)
        \/ \E forceNoop \in BOOLEAN : ExecuteSetsModule(t, forceNoop)
        \/ EnterGuest(t)
        \/ HostCall(t)
        \/ LeaveGuest(t)

SpecWorkers == Init /\ [][NextWorkers]_vars

\* thread t takes a step of its call
StepOf(t) == workers'[t].pc # workers[t].pc \/ workers'[t].seen # workers[t].seen

\* C21: with several modules executing in parallel on different threads, under
\* every interleaving the executing-module pointer of a thread refers, while
\* guest code invoked by execute / executeFunction runs on it, to the module
\* that invoked the guest code, and so does every pointer a host call saw; a
\* step of execute on one thread never changes the pointer of another thread.
C21_PointerIsPerThread ==
    /\ [](\A t \in Threads :
            workers[t].pc = "guest" =>
                /\ getExecutingWAVMModule(workers, t) = workers[t].this
                /\ workers[t].seen \in {"none", workers[t].this})
    /\ [][\A t \in Threads :
            getExecutingWAVMModule(workers', t) # getExecutingWAVMModule(workers, t)
                => StepOf(t)]_vars

\* two threads are in guest code of two different modules at once, each host
\* call having seen its own module, thread 2 after an earlier call on m1
C21_Witness ==
    /\ workers[1].pc = "guest" /\ workers[2].pc = "guest"
    /\ workers[1].this = "m1" /\ workers[2].this = "m2"
    /\ workers[1].seen = "m1" /\ workers[2].seen = "m2"
    /\ workers[2].calls = 2

----------------------------------------------------------------------------
(* bindToFunction that fails half-way, tearDown and clone *)

\* binds of main modules that link, that fail to link, that lack or fail
\* __wasm_call_ctors, that fail the zygote and that fail the layout check
FailingBindStep ==
    \E function \in {"hello", "badstack", "split"} \cup BrokenMains,
       executeZygote \in BOOLEAN, ctorsResult \in {0, 1}, zygoteResult \in {0, 1} :
        BindToFunction("demo", function, executeZygote, ctorsResult, zygoteResult)

NextRebind ==
    \/ FailingBindStep
    \/ TearDownStep
    \/ CloneStep
    \/ OtherBindStep

SpecRebind == Init /\ [][NextRebind]_vars

\* the step is a bindToFunction that passed the already-bound check and raised
BindFailed ==
    /\ last'.op = "bindToFunction"
    /\ last'.exc \notin {"none", "Cannot bind a module twice"}

\* C31: a bindToFunction that raises after the already-bound check leaves the
\* bound flag true with boundUser / boundFunction those of its message; on a
\* bound module every bindToFunction raises "Cannot bind a module twice" and
\* changes nothing, and the bound flag of a module is cleared by clone only.
C31_NoRollbackOfFailedBind ==
    /\ [][ BindFailed =>
             /\ ~isBound /\ isBound'
             /\ boundUser' = last'.msg.user
             /\ boundFunction' = last'.msg.function ]_vars
    /\ [][ (isBound /\ last'.op = "bindToFunction") =>
             /\ last'.exc = "Cannot bind a module twice"
             /\ UNCHANGED << isBound, boundUser, boundFunction, moduleInstance,
                             compartment, executionContext, memNumPages, tableElems >> ]_vars
    /\ [][ (isBound /\ ~isBound') => last'.op = "clone" ]_vars

\* a bind of another function on a module whose bind failed to link was
\* refused: the module is still bound to the function of the failed bind
C31_Witness ==
    /\ last.op = "bindToFunction" /\ last.exc = "Cannot bind a module twice"
    /\ last.msg.function = "hello"
    /\ isBound /\ boundFunction = "nolink" /\ moduleInstance = "null"
    /\ compartment # 0

----------------------------------------------------------------------------
(* Sequences of operations none of which raised *)

\* std::map values: the handles the paths are mapped to
Handles(p2h) == { p2h[p] : p \in DOMAIN p2h }

\* WAVMWasmModule::getDynamicModuleCount
getDynamicModuleCount == Cardinality(DOMAIN dynamicModuleMap)

\* the call of the step returned normally
Returned == last'.exc = "none"

\* the operations of a module, each step one call that returned normally
QuietBindStep == BindStep /\ Returned

QuietLoadStep == DynamicLoadStep /\ Returned

QuietGetDynamicModuleFunctionStep == RunGetDynamicModuleFunctionStep /\ Returned

QuietMmapStep == RunMmapStep /\ Returned

NextQuiet ==
    \/ QuietBindStep
    \/ QuietLoadStep
    \/ QuietGetDynamicModuleFunctionStep
    \/ QuietMmapStep
    \/ TearDownStep

SpecQuiet == Init /\ [][NextQuiet]_vars

\* the registry, the path-to-handle map and the cursor agree
RegistryConsistent ==
    LET n == getDynamicModuleCount
    IN  /\ DOMAIN dynamicModuleMap = Handles(dynamicPathToHandleMap)
        /\ DOMAIN dynamicModuleMap = 2 .. (n + 1)
        /\ n = Cardinality(DOMAIN dynamicPathToHandleMap)
        /\ \A h \in DOMAIN dynamicModuleMap : dynamicModuleMap[h].ptr # "null"
        /\ IF n = 0 THEN lastLoadedDynamicModuleHandle = 0
           ELSE lastLoadedDynamicModuleHandle \in DOMAIN dynamicModuleMap

\* C32: after any sequence of operations on a bound instance none of which
\* raised, the keys of the registry are the values of the path-to-handle map
\* and are {2, ..., n+1}, n = getDynamicModuleCount() being the number of
\* distinct paths loaded, every record has a non-null instance, and the
\* last-loaded cursor is 0 when n = 0 and a key of the registry otherwise.
C32_RegistryConsistent ==
    isBound => RegistryConsistent

\* the same for a module that was not torn down since its bind
C32_WhileInstantiated ==
    (isBound /\ moduleInstance # "null") => RegistryConsistent

\* two shared objects are loaded and the cursor names the second
C32_TwoLoaded ==
    /\ isBound /\ getDynamicModuleCount = 2 /\ lastLoadedDynamicModuleHandle = 3
    /\ RegistryConsistent

----------------------------------------------------------------------------
(* The global offset table over the whole life of a module *)

\* loads of every shared object, complete or cut short in the patch-up or at
\* the creation of a global
GOTLoadStep ==
    \E path \in SharedPaths,
       f \in {NoFault, [kind |-> "createGlobal", at |-> 5, res |-> "none"]} :
        \E before \in BeforeChoices(path) :
            DynamicLoad(path, f, before, 0)

GOTSymStep ==
    \E handle \in {1, 2}, funcName \in {"g", "mf"} :
        GetDynamicModuleFunction(handle, funcName, NoFault)

\* bind, dlopen, dlsym and tearDown on one module
NextGOT ==
    \/ BindStep
    \/ GOTLoadStep
    \/ GOTSymStep
    \/ TearDownStep

SpecGOT == Init /\ [][NextGOT]_vars

\* every entry of the map before the step is in the map after it, unchanged
EntriesKept(before, after) ==
    \A name \in DOMAIN before : name \in DOMAIN after /\ after[name] = before[name]

\* C33: an entry of functionOffsets or of dataOffsets is written once: no
\* bind, dynamicLoad (its addModuleToGOT, resolve and patch-up included) and
\* no getDynamicModuleFunction changes or removes the value recorded for a
\* name that is a key already, so the first module to define a name wins;
\* entries disappear only through tearDown, which empties both maps.
C33_GOTWriteOnce ==
    [][ IF last'.op = "tearDown"
        THEN globalOffsetTableMap' = EmptyMap /\ globalOffsetMemoryMap' = EmptyMap
        ELSE /\ EntriesKept(globalOffsetTableMap, globalOffsetTableMap')
             /\ EntriesKept(globalOffsetMemoryMap, globalOffsetMemoryMap')
      ]_vars

\* /lib/e.so, which exports g as b.so does, was loaded after b.so, and
\* functionOffsets still gives g the slot in b.so's table range
C33_Witness ==
    /\ last.op = "dynamicLoad" /\ last.path = "/lib/e.so"
    /\ "/lib/b.so" \in DOMAIN dynamicPathToHandleMap
    /\ dynamicPathToHandleMap["/lib/b.so"] = 2
    /\ 3 \in DOMAIN dynamicModuleMap
    /\ "g" \in DOMAIN globalOffsetTableMap
    /\ globalOffsetTableMap["g"] = dynamicModuleMap[2].tableBottom
    /\ globalOffsetTableMap["g"] < dynamicModuleMap[3].tableBottom

----------------------------------------------------------------------------
(* A clone and its source, each operated on after the clone *)

\* other.getDynamicModuleFunction(handle, funcName)
OtherGetDynamicModuleFunction(handle, funcName) ==
    /\ ~crashed
    /\ \E s \in {getDynamicModuleFunction(Working(other), handle, funcName, NoFault)} :
        /\ Len(s.tbl) <= MaxTableElems \/ Len(s.tbl) = Len(other.tbl)
        /\ other' = Kept(other, s)
        /\ crashed' = (s.exc = CRASH)
        /\ last' = Call("other.getDynamicModuleFunction", "", handle, funcName, s, NoFault)
    /\ UNCHANGED << isBound, boundUser, boundFunction, compartment,
                    executionContext, envModule, wasiModule, moduleInstance,
                    defaultMemory, defaultTable, memNumPages, memNoAccess,
                    tableElems, globalOffsetTableMap, globalOffsetMemoryMap,
                    missingGlobalOffsetEntries, dynamicPathToHandleMap,
                    dynamicModuleMap, lastLoadedDynamicModuleHandle,
                    executingModule, mmaps, compartmentsCreated, memData, snapshot,
                    baseVars >>

\* other.tearDown()
OtherTearDown ==
    /\ ~crashed
    /\ other.compartment # 0
    /\ other' = tearDownModule(other)
    /\ last' = Call("other.tearDown", "", 0, "", Working(other), NoFault)
    /\ UNCHANGED << isBound, boundUser, boundFunction, compartment,
                    executionContext, envModule, wasiModule, moduleInstance,
                    defaultMemory, defaultTable, memNumPages, memNoAccess,
                    tableElems, globalOffsetTableMap, globalOffsetMemoryMap,
                    missingGlobalOffsetEntries, dynamicPathToHandleMap,
                    dynamicModuleMap, lastLoadedDynamicModuleHandle,
                    executingModule, mmaps, compartmentsCreated, crashed, memData,
                    snapshot, baseVars >>

\* the source is bound and loads shared objects; this module is bound by
\* clone only, so a bound `this` is a clone of `other`
PairLoadStep ==
    \/ \E path \in {"/lib/a.so", "/lib/b.so"} : DynamicLoad(path, NoFault, {}, 0)
    \/ OtherDynamicLoad("/lib/b.so")

PairSymStep ==
    \/ GetDynamicModuleFunction(2, "g", NoFault)
    \/ OtherGetDynamicModuleFunction(2, "g")

PairMmapStep ==
    \/ MmapPages(2, NoFault)
    \/ OtherMmapPages(2)

PairTearDownStep ==
    \/ TearDown(TRUE)
    \/ OtherTearDown

NextPair ==
    \/ OtherBindStep
    \/ Clone(TRUE)
    \/ PairLoadStep
    \/ PairSymStep
    \/ PairMmapStep
    \/ PairTearDownStep

SpecPair == Init /\ [][NextPair]_vars

\* functionOffsets, dataOffsets, missingEntries, the path-to-handle map, the
\* registry and the cursor of this module and of the other one
LinkStateOfThis ==
    << globalOffsetTableMap, globalOffsetMemoryMap, missingGlobalOffsetEntries,
       dynamicPathToHandleMap, dynamicModuleMap, lastLoadedDynamicModuleHandle >>

LinkStateOfOther ==
    << other.got, other.gom, other.miss, other.p2h, other.dmm, other.cursor >>

OperationsOnThis == {"dynamicLoad", "getDynamicModuleFunction", "mmapPages", "tearDown"}

OperationsOnOther ==
    {"other.dynamicLoad", "other.getDynamicModuleFunction", "other.mmapPages",
     "other.tearDown"}

\* C34: a dynamicLoad, getDynamicModuleFunction, mmapPages or tearDown on a
\* clone leaves functionOffsets, dataOffsets, missingEntries, the
\* path-to-handle map, the registry and the cursor of its source unchanged,
\* and the same operations on the source leave those of the clone unchanged.
C34_CloneIndependence ==
    /\ [][ (isBound /\ last'.op \in OperationsOnThis) => UNCHANGED LinkStateOfOther ]_vars
    /\ [][ (isBound /\ last'.op \in OperationsOnOther) => UNCHANGED LinkStateOfThis ]_vars

\* the clone loaded /lib/a.so on top of the /lib/b.so it took over from its
\* source, whose registry still has the one record
C34_Witness ==
    /\ isBound /\ last.op = "dynamicLoad" /\ last.path = "/lib/a.so" /\ last.exc = "none"
    /\ DOMAIN dynamicModuleMap = {2, 3}
    /\ dynamicPathToHandleMap = [p \in {"/lib/b.so", "/lib/a.so"} |->
                                    IF p = "/lib/b.so" THEN 2 ELSE 3]
    /\ DOMAIN other.dmm = {2} /\ other.p2h = [p \in {"/lib/b.so"} |-> 2]
    /\ other.cursor = 2 /\ lastLoadedDynamicModuleHandle = 3

\* the source was torn down after the clone, which keeps its registry
C34_WitnessSwapped ==
    /\ isBound /\ last.op = "other.tearDown"
    /\ other.dmm = EmptyMap /\ DOMAIN dynamicModuleMap = {2}
    /\ dynamicModuleMap[2].ptr # "null"

----------------------------------------------------------------------------
(* The memory of a module from bind to tearDown *)

\* OpenMP messages: each execute allocates one thread stack
MapsExecuteStep ==
    \E m \in {x \in ExecMessages : x.function = "hello" /\ x.ompdepth = 1} :
        Execute(m, FALSE, [kind |-> "return", value |-> 0], NoFault)

\* bind, loads with and without a failing mprotect, direct mmapPages and
\* allocateThreadStack calls, OpenMP executes and tearDown
NextMaps ==
    \/ BindStep
    \/ RunLoadStep
    \/ RunMmapStep
    \/ MapsExecuteStep
    \/ TearDownStep

SpecMaps == Init /\ [][NextMaps]_vars

\* two ranges of pages [lo, hi) have no page in common
DisjointRanges(a, b) == a.hi <= b.lo \/ b.hi <= a.lo

\* C35: from bind to tearDown the page count of the memory never decreases,
\* and every range handed out by mmapPages (guard regions, the memory of a
\* dynamic module, thread stacks, direct mmapPages / mmapMemory calls) is a
\* non-empty range of pages of the memory that is disjoint from every range
\* handed out before it on the same instance.
C35_MemoryGrowsDisjointly ==
    /\ [][ last'.op # "tearDown" => memNumPages' >= memNumPages ]_vars
    /\ [](\A i \in DOMAIN last.maps :
            /\ last.maps[i].lo < last.maps[i].hi
            /\ last.maps[i].hi <= memNumPages
            /\ \A j \in DOMAIN last.maps :
                  j < i => DisjointRanges(last.maps[j], last.maps[i]))
    /\ [](\A h \in DOMAIN dynamicModuleMap :
            \E i \in DOMAIN last.maps :
                /\ last.maps[i].lo * WASM_BYTES_PER_PAGE = dynamicModuleMap[h].memoryBottom
                /\ last.maps[i].hi * WASM_BYTES_PER_PAGE = dynamicModuleMap[h].memoryTop)

\* the sizes, in pages, of the ranges handed out so far
SizesHandedOut == { last.maps[i].hi - last.maps[i].lo : i \in DOMAIN last.maps }

\* guard regions, the memory of a dynamic module, a thread stack and a direct
\* mmapPages(2) were all handed out on one instance
C35_Witness ==
    /\ isBound /\ moduleInstance # "null"
    /\ {GuardPages, DYNAMIC_MODULE_MEMORY_PAGES, 2,
        getNumberOfWasmPagesForBytes(THREAD_STACK_SIZE)} \subseteq SizesHandedOut
    /\ Len(last.maps) >= 5
    /\ Cardinality(DOMAIN dynamicModuleMap) = 1

----------------------------------------------------------------------------
(* The table of a module and the indices the linker keeps *)

\* the table indices [tableBottom, tableTop) of the registry record h
TableRange(dmm, h) == dmm[h].tableBottom .. (dmm[h].tableTop - 1)

\* index is an element of the table and of no dynamic module's range
OutsideModuleRanges(index, tbl, dmm) ==
    /\ index >= 0 /\ index < Len(tbl)
    /\ \A h \in DOMAIN dmm : index \notin TableRange(dmm, h)

\* the names the step added to functionOffsets in resolve (GOT.func found in
\* an instance) or in the patch-up of createModuleInstance: the new names
\* that addModuleToGOT did not insert
AddedByResolveOrPatchUp ==
    (DOMAIN globalOffsetTableMap')
        \ (IF AddedToGOT THEN DOMAIN GOTAtLink ELSE DOMAIN globalOffsetTableMap)

\* C36: while the module has its table the table size never decreases; the
\* ranges [tableBottom, tableTop) of distinct dynamic modules are pairwise
\* disjoint; every index recorded in missingEntries, and every index added
\* to functionOffsets by resolve or by the patch-up, is smaller than the
\* table size and inside no dynamic module's range, when it is added and in
\* every later state: an entry of functionOffsets inside a module's range is
\* an exported name of that module's element segment at its own slot.
C36_TableBookkeeping ==
    /\ [][ defaultTable' # "null" => Len(tableElems') >= Len(tableElems) ]_vars
    /\ [](\A h1, h2 \in DOMAIN dynamicModuleMap :
            h1 # h2 => TableRange(dynamicModuleMap, h1)
                          \cap TableRange(dynamicModuleMap, h2) = {})
    /\ [](\A n \in DOMAIN missingGlobalOffsetEntries :
            OutsideModuleRanges(missingGlobalOffsetEntries[n], tableElems,
                                dynamicModuleMap))
    /\ [][ last'.op # "tearDown" =>
             \A n \in AddedByResolveOrPatchUp :
                 OutsideModuleRanges(globalOffsetTableMap'[n], tableElems',
                                     dynamicModuleMap') ]_vars
    /\ [](\A n \in DOMAIN globalOffsetTableMap :
            /\ globalOffsetTableMap[n] < Len(tableElems)
            /\ \A h \in DOMAIN dynamicModuleMap :
                  globalOffsetTableMap[n] \in TableRange(dynamicModuleMap, h) =>
                      LET mod == getModule(boundFunction, dynamicModuleMap[h].path)
                          i == globalOffsetTableMap[n] - dynamicModuleMap[h].tableBottom + 1
                      IN  /\ i \in 1..Len(mod.elems)
                          /\ mod.elems[i] = n
                          /\ \E e \in mod.exports : e.name = n)

\* two dynamic modules with their table ranges, and a name the patch-up of
\* the last load added to functionOffsets at its placeholder, above both
C36_Witness ==
    /\ isBound /\ Cardinality(DOMAIN dynamicModuleMap) = 2
    /\ last.op = "dynamicLoad" /\ last.exc = "none"
    /\ \E n \in DOMAIN last.patched :
          /\ n \in DOMAIN globalOffsetTableMap
          /\ globalOffsetTableMap[n] = last.patched[n]
          /\ OutsideModuleRanges(globalOffsetTableMap[n], tableElems, dynamicModuleMap)
          /\ \A h \in DOMAIN dynamicModuleMap :
                globalOffsetTableMap[n] >= dynamicModuleMap[h].tableTop

\* a load that raised left its record, with its table range, and a
\* placeholder in missingEntries above the range
C36_PlaceholderWitness ==
    /\ isBound /\ dynamicModuleMap # EmptyMap
    /\ last.op = "dynamicLoad" /\ last.exc # "none"
    /\ \E n \in DOMAIN missingGlobalOffsetEntries, h \in DOMAIN dynamicModuleMap :
          /\ dynamicModuleMap[h].tableTop > dynamicModuleMap[h].tableBottom
          /\ missingGlobalOffsetEntries[n] >= dynamicModuleMap[h].tableTop

----------------------------------------------------------------------------
(* A module that was torn down and is used again *)

StaleExecuteStep ==
    \E m \in {x \in ExecMessages : x.function = "hello"} :
        Execute(m, FALSE, [kind |-> "return", value |-> 0], NoFault)

\* bind, loads, tearDown, and the binds and executes that follow it
NextStale ==
    \/ BindStep
    \/ RunLoadStep
    \/ StaleExecuteStep
    \/ TearDownStep

SpecStale == Init /\ [][NextStale]_vars

\* every backend handle of the module is null
HandlesNull ==
    /\ defaultMemory = "null" /\ defaultTable = "null"
    /\ moduleInstance = "null" /\ envModule = "null" /\ wasiModule = "null"
    /\ compartment = 0 /\ executionContext = 0

\* WAVMWasmModule::isBound() answers true on a module whose handles are null,
\* and the cursor is a handle of an earlier load
TornDownBound ==
    /\ isBound /\ HandlesNull
    /\ dynamicModuleMap = EmptyMap
    /\ lastLoadedDynamicModuleHandle >= 2

\* the message names the function the module is bound to
Matching(m) == m.user = boundUser /\ m.function = boundFunction

\* C37: tearDown writes neither the bound flag nor the last-loaded cursor.
\* After tearDown on a bound module that had loaded dynamic modules isBound()
\* is still true, every backend handle is null, and the cursor is a handle
\* that is not in the (empty) registry; in that state bindToFunction raises
\* 'Cannot bind a module twice' and changes nothing, and execute with a
\* matching message raises neither of the two bound-check errors and reaches
\* setExecutingModule(this).
C37_TearDownKeepsBoundAndCursor ==
    /\ [][ last'.op = "tearDown" =>
             /\ isBound' = isBound
             /\ boundUser' = boundUser /\ boundFunction' = boundFunction
             /\ lastLoadedDynamicModuleHandle' = lastLoadedDynamicModuleHandle ]_vars
    /\ [][ (last'.op = "tearDown" /\ isBound /\ dynamicModuleMap # EmptyMap) =>
             /\ TornDownBound'
             /\ lastLoadedDynamicModuleHandle' \notin DOMAIN dynamicModuleMap' ]_vars
    /\ [][ (TornDownBound /\ last'.op = "bindToFunction") =>
             /\ last'.exc = "Cannot bind a module twice"
             /\ TornDownBound' ]_vars
    /\ [][ (TornDownBound /\ last'.op = "execute" /\ Matching(last'.msg)) =>
             /\ last'.exc \notin
                  {"WasmModule must be bound before executing function",
                   "Cannot execute function on module bound to another"}
             /\ executingModule' = "self" ]_vars

\* a bind on the torn-down module was refused
C37_Witness ==
    /\ TornDownBound
    /\ last.op = "bindToFunction" /\ last.exc = "Cannot bind a module twice"
    /\ lastLoadedDynamicModuleHandle \notin DOMAIN dynamicModuleMap

\* an execute on the torn-down module went past the bound checks
C37_ExecuteWitness ==
    /\ isBound /\ moduleInstance = "null" /\ dynamicModuleMap = EmptyMap
    /\ lastLoadedDynamicModuleHandle >= 2
    /\ last.op = "execute" /\ Matching(last.msg)
    /\ last.exc \notin {"none",
                        "WasmModule must be bound before executing function",
                        "Cannot execute function on module bound to another"}

----------------------------------------------------------------------------
(* The pages snapshot and restore touch *)

\* the pages doSnapshot reads: [memBase, memBase + numPages * WASM_BYTES_PER_PAGE)
SnapshotPages(m) == 0 .. (m.pages - 1)

\* the pages the memcpy of doRestore writes
RestorePages(snap) == 0 .. (snap.numPages - 1)

\* a dynamicLoad of the module returned normally: a record has its instance
HasLoaded(dmm) == \E h \in DOMAIN dmm : dmm[h].ptr # "null"

\* C38: neither snapshot nor restore touches a page that is marked no-access:
\* a snapshot of a module with a loaded dynamic module reads no guard-region
\* page, and a restore that reaches its memcpy writes none.
C38_SnapshotAvoidsGuardPages ==
    /\ [][ (last'.op = "other.snapshot" /\ HasLoaded(other.dmm)) =>
             /\ SnapshotPages(other) \cap other.noacc = {}
             /\ last'.exc = "none" ]_vars
    /\ [][ (last'.op = "restore" /\ defaultMemory # "null"
              /\ last'.exc \in {"none", CRASH}) =>
             /\ RestorePages(snapshot) \cap memNoAccess' = {}
             /\ last'.exc = "none" ]_vars

\* a snapshot of a module without dynamic modules and its restore touch no
\* protected page
C38_WithoutDynamicModules ==
    /\ [][ (last'.op = "other.snapshot" /\ other.dmm = EmptyMap) =>
             /\ SnapshotPages(other) \cap other.noacc = {}
             /\ last'.exc = "none" ]_vars
    /\ [][ (last'.op = "restore" /\ defaultMemory # "null"
              /\ last'.exc \in {"none", CRASH} /\ memNoAccess = {}) =>
             /\ RestorePages(snapshot) \cap memNoAccess' = {}
             /\ last'.exc = "none" ]_vars

\* a restore was made into a module that has guard regions
C38_RestoreReached ==
    /\ last.op = "restore" /\ memNoAccess # {} /\ defaultMemory # "null"

====
